---- MODULE Spec2Model ----
(***************************************************************************)
(* ChecklistCasa: projects, membership, criteria, visits and the           *)
(* polymorphic assessment value store (src/projects/models.py, forms.py,   *)
(* views.py), modelled as a state machine.                                 *)
(*                                                                         *)
(* Ten specifications share the variables:                                 *)
(*   Spec         the project/membership views on an initially empty       *)
(*                database, with every kind of input;                      *)
(*   SpecAll      every view on an initially empty database, each with one *)
(*                well-formed submission;                                  *)
(*   SpecContent  criteria and assessments of one shared project;          *)
(*   SpecAccess   the project-scoped views requested by a non-member;      *)
(*   SpecValue    the VisitAssessment model API (set_value, get_value,     *)
(*                save) on one in-memory assessment;                       *)
(*   SpecCriteria the criteria views of one shared project;                *)
(*   SpecFlow     the three steps of visit_create in two browser tabs;     *)
(*   SpecCompare  the comparison view while criteria and visits come and   *)
(*                go;                                                      *)
(*   SpecHighlight the statistics and the best/worst filters of one        *)
(*                column of the comparison table;                          *)
(*   SpecSort     the sort of the comparison table by one column.          *)
(***************************************************************************)
EXTENDS Integers, Sequences, FiniteSets, TLC

VARIABLES
    projects,      \* Project rows: id -> [name, owner, collaborators, status, finished_at]
    invitations,   \* ProjectInvitation rows: id -> [project, email, invited_by, accepted, accepted_at]
    criteria,      \* Criteria rows: id -> [project, name, type, order]
    visits,        \* Visit rows: id -> [project, name, visit_date, created_by]
    assessments,   \* VisitAssessment rows: set of [visit, criteria, value_text, ...]
    photos,        \* VisitPhoto rows: set of [id, visit, order]
    session,       \* per-user session: user -> [visit_data, visit_id]
    nextId,        \* AUTOINCREMENT counters: [project, invitation, criteria, visit, photo]
    response,      \* the HTTP response of the last request
    mem            \* SpecValue: the in-memory VisitAssessment and its criteria;
                   \* SpecHighlight, SpecSort: one column of the comparison table

vars == <<projects, invitations, criteria, visits, assessments, photos,
          session, nextId, response, mem>>

dbVars == <<projects, invitations, criteria, visits, assessments, photos>>

----------------------------------------------------------------------------
(* Python values: a tag and a payload.  Decimal and float payloads are in  *)
(* hundredths (DecimalField(decimal_places=2)).                            *)

PyNone == [k |-> "None", v |-> 0]
PyBool(b) == [k |-> "bool", v |-> b]
PyInt(n) == [k |-> "int", v |-> n]
PyFloat(c) == [k |-> "float", v |-> c]
PyDecimal(c) == [k |-> "Decimal", v |-> c]
PyStr(s) == [k |-> "str", v |-> s]

\* Outcome of a Python call: a value, or a raised exception.
Ok(x) == [raised |-> "", val |-> x]
Raise(e) == [raised |-> e, val |-> PyNone]

\* Largest integer whose literal str()/int() convert
MaxLiteral == 9

DigitStr(d) ==
    CASE d = 0 -> "0" [] d = 1 -> "1" [] d = 2 -> "2" [] d = 3 -> "3"
      [] d = 4 -> "4" [] d = 5 -> "5" [] d = 6 -> "6" [] d = 7 -> "7"
      [] d = 8 -> "8" [] d = 9 -> "9"

RECURSIVE NatToStr(_)
NatToStr(n) == IF n < 10 THEN DigitStr(n) ELSE NatToStr(n \div 10) \o DigitStr(n % 10)

\* str(int)
IntToStr(n) == IF n < 0 THEN "-" \o NatToStr(0 - n) ELSE NatToStr(n)

\* int(str): the integer whose literal the string is, else ValueError
IsIntLiteral(s) == \E n \in 0..MaxLiteral : NatToStr(n) = s
ParseInt(s) == CHOOSE n \in 0..MaxLiteral : NatToStr(n) = s

\* truncation toward zero of a hundredths payload: int(2.50) = 2, int(-2.5) = -2
TruncHundredths(c) == IF c >= 0 THEN c \div 100 ELSE 0 - ((0 - c) \div 100)

\* bool(value)
py_bool(x) ==
    CASE x.k = "None" -> FALSE
      [] x.k = "bool" -> x.v
      [] x.k = "str" -> x.v # ""
      [] OTHER -> x.v # 0

\* float(value)
py_float(x) ==
    CASE x.k = "bool" -> Ok(PyFloat(IF x.v THEN 100 ELSE 0))
      [] x.k = "int" -> Ok(PyFloat(100 * x.v))
      [] x.k = "float" -> Ok(x)
      [] x.k = "Decimal" -> Ok(PyFloat(x.v))
      [] x.k = "str" -> IF IsIntLiteral(x.v) THEN Ok(PyFloat(100 * ParseInt(x.v)))
                                              ELSE Raise("ValueError")
      [] OTHER -> Raise("TypeError")

\* int(value)
py_int(x) ==
    CASE x.k = "bool" -> Ok(PyInt(IF x.v THEN 1 ELSE 0))
      [] x.k = "int" -> Ok(x)
      [] x.k = "float" -> Ok(PyInt(TruncHundredths(x.v)))
      [] x.k = "Decimal" -> Ok(PyInt(TruncHundredths(x.v)))
      [] x.k = "str" -> IF IsIntLiteral(x.v) THEN Ok(PyInt(ParseInt(x.v)))
                                              ELSE Raise("ValueError")
      [] OTHER -> Raise("TypeError")

\* the fractional part of a hundredths payload as Python prints it
FractionStr(c) ==
    LET f == (IF c >= 0 THEN c ELSE 0 - c) % 100
    IN  IF f % 10 = 0 THEN DigitStr(f \div 10) ELSE DigitStr(f \div 10) \o DigitStr(f % 10)

\* str(value)
py_str(x) ==
    CASE x.k = "None" -> "None"
      [] x.k = "bool" -> IF x.v THEN "True" ELSE "False"
      [] x.k = "int" -> IntToStr(x.v)
      [] x.k = "str" -> x.v
      [] x.k = "float" -> (IF x.v < 0 THEN "-" ELSE "")
                          \o NatToStr(TruncHundredths(IF x.v < 0 THEN 0 - x.v ELSE x.v))
                          \o "." \o FractionStr(x.v)
      [] x.k = "Decimal" -> (IF x.v < 0 THEN "-" ELSE "")
                          \o NatToStr(TruncHundredths(IF x.v < 0 THEN 0 - x.v ELSE x.v))
                          \o "." \o DigitStr(((IF x.v < 0 THEN 0 - x.v ELSE x.v) % 100) \div 10)
                          \o DigitStr((IF x.v < 0 THEN 0 - x.v ELSE x.v) % 10)

----------------------------------------------------------------------------
(* VisitAssessment: the four value slots, get_value and set_value.         *)

TYPE_CHOICES == {"boolean", "numeric", "text", "rating"}

\* a VisitAssessment created without values: the column defaults
NewAssessment ==
    [value_text |-> PyStr(""), value_numeric |-> PyNone,
     value_boolean |-> PyNone, value_rating |-> PyNone]

\* get_value with the rating branch reading the numeric slot
get_value_numeric_rating(a, type) ==
    IF type = "boolean" THEN a.value_boolean
    ELSE IF type = "numeric" THEN a.value_numeric
    ELSE IF type = "rating" THEN a.value_numeric
    ELSE a.value_text

get_value(a, type) ==
    IF type = "boolean" THEN a.value_boolean
    ELSE IF type = "numeric" THEN a.value_numeric
    ELSE IF type = "rating" THEN a.value_rating
    ELSE a.value_text

\* set_value with the slot of every type written (the clear-first step left out)
set_value_keeping(a, type, value) ==
    IF type = "boolean" THEN
        Ok([a EXCEPT !.value_boolean = IF value.k # "None" THEN PyBool(py_bool(value)) ELSE PyNone])
    ELSE IF type = "numeric" THEN
        Ok([a EXCEPT !.value_numeric = IF value.k # "None" THEN py_float(value).val ELSE PyNone])
    ELSE IF type = "rating" THEN
        Ok([a EXCEPT !.value_rating = IF value.k # "None" THEN py_int(value).val ELSE PyNone])
    ELSE
        Ok([a EXCEPT !.value_text = IF value.k # "None" THEN PyStr(py_str(value)) ELSE PyStr("")])

\* set_value: the slots after the call and the exception it raised, if any.
\* The slots are cleared before the conversion, so a conversion that raises
\* leaves all four cleared.
set_value(a, type, value) ==
    LET cleared == NewAssessment
    IN  IF type = "boolean" THEN
            Ok([cleared EXCEPT !.value_boolean =
                    IF value.k # "None" THEN PyBool(py_bool(value)) ELSE PyNone])
        ELSE IF type = "numeric" THEN
            IF value.k # "None" /\ py_float(value).raised # ""
            THEN [raised |-> py_float(value).raised, val |-> cleared]
            ELSE Ok([cleared EXCEPT !.value_numeric =
                    IF value.k # "None" THEN py_float(value).val ELSE PyNone])
        ELSE IF type = "rating" THEN
            IF value.k # "None" /\ py_int(value).raised # ""
            THEN [raised |-> py_int(value).raised, val |-> cleared]
            ELSE Ok([cleared EXCEPT !.value_rating =
                    IF value.k # "None" THEN py_int(value).val ELSE PyNone])
        ELSE
            Ok([cleared EXCEPT !.value_text =
                    IF value.k # "None" THEN PyStr(py_str(value)) ELSE PyStr("")])

\* Model.save(): the row the database stores for the in-memory slots.  The
\* DecimalField column stores a float as a Decimal; field validators are not
\* run by save().
SaveRow(a) ==
    [a EXCEPT !.value_numeric =
        IF a.value_numeric.k = "float" THEN PyDecimal(a.value_numeric.v)
        ELSE IF a.value_numeric.k = "int" THEN PyDecimal(100 * a.value_numeric.v)
        ELSE a.value_numeric]

----------------------------------------------------------------------------
(* Users, requests and responses.                                          *)

Users == {"alice", "bob", "carol"}
Anonymous == "anonymous"          \* request.user of a request without login
Requesters == Users \cup {Anonymous}
UnknownUserId == "nobody"         \* a user id no User row has

\* User.email
EmailOf == [u \in Users |-> u \o "@x.io"]

Methods == {"GET", "POST"}

\* timezone.now()
Times == {1}

NoTime == 0                       \* a null DateTimeField

\* The model follows one project: every view is scoped to the project its pk
\* names, and rows of different projects meet only in that filter.
ProjectIds == {1}
UnknownProjectId == 2             \* a pk no Project row has

\* bound on the ProjectInvitation ids handed out
MaxInvitations == 2
InvitationIds == 1..MaxInvitations

\* A response is its status code, the URL name or template it leads to and the
\* flash message it carries (level and text, names left out of the text).
Redirect(to, level, msg) == [code |-> 302, to |-> to, level |-> level, msg |-> msg]
Render(template) == [code |-> 200, to |-> template, level |-> "", msg |-> ""]
RenderWith(template, level, msg) == [code |-> 200, to |-> template, level |-> level, msg |-> msg]
\* get_object_or_404 found no row
NotFound == [code |-> 404, to |-> "", level |-> "", msg |-> ""]
\* require_http_methods(["POST"]) refused the method
NotAllowed == [code |-> 405, to |-> "", level |-> "", msg |-> ""]
\* an exception left the view
ServerError(e) == [code |-> 500, to |-> e, level |-> "", msg |-> ""]
\* login_required sent the anonymous request to the login page
LoginRedirect == Redirect("account_login", "", "")
NoResponse == [code |-> 0, to |-> "", level |-> "", msg |-> ""]

\* dict/row-table helpers
Put(f, key, val) == [x \in DOMAIN f \cup {key} |-> IF x = key THEN val ELSE f[x]]
Drop(f, keys) == [x \in DOMAIN f \ keys |-> f[x]]

----------------------------------------------------------------------------
(* Project                                                                 *)

\* Project.objects.create(name, owner): status defaults to active,
\* finished_at to null, no collaborators
NewProject(name, owner) ==
    [name |-> name, owner |-> owner, collaborators |-> {},
     status |-> "active", finished_at |-> NoTime]

\* finish_project writing the status only
finish_project_status_only(p, now) == [p EXCEPT !.status = "finished"]

finish_project(p, now) == [p EXCEPT !.status = "finished", !.finished_at = now]

\* membership granted to every signed-in user
is_member_any_user(p, user) == user \in Users

is_member(p, user) == user = p.owner \/ user \in p.collaborators

\* ProjectForm.clean_name: strip, then at least 3 characters
RawProjectNames == {"Home", " Flat ", "ab"}
StripName(raw) == IF raw = " Flat " THEN "Flat" ELSE raw
ProjectFormValid(raw) == StripName(raw) # "" /\ Len(StripName(raw)) >= 3

project_create(u, method, raw) ==
    /\ IF u = Anonymous THEN
            /\ response' = LoginRedirect
            /\ UNCHANGED <<projects, nextId>>
       ELSE IF method = "POST" /\ ProjectFormValid(raw) THEN
            /\ nextId.project \in ProjectIds
            /\ projects' = Put(projects, nextId.project, NewProject(StripName(raw), u))
            /\ nextId' = [nextId EXCEPT !.project = @ + 1]
            /\ response' = Redirect("projects:detail", "success", "Project created successfully!")
       ELSE
            /\ response' = Render("projects/create.html")
            /\ UNCHANGED <<projects, nextId>>
    /\ UNCHANGED <<invitations, criteria, visits, assessments, photos, session, mem>>

project_detail(u, pk) ==
    /\ response' =
        IF u = Anonymous THEN LoginRedirect
        ELSE IF pk \notin DOMAIN projects THEN NotFound
        ELSE IF ~is_member(projects[pk], u)
            THEN Redirect("projects:list", "error", "You don't have access to this project.")
        ELSE Render("projects/detail.html")
    /\ UNCHANGED <<dbVars, session, nextId, mem>>

\* project_edit without the owner check
project_edit_any_member(u, pk, method, raw) ==
    /\ IF u = Anonymous THEN
            response' = LoginRedirect /\ UNCHANGED projects
       ELSE IF pk \notin DOMAIN projects THEN
            response' = NotFound /\ UNCHANGED projects
       ELSE IF projects[pk].status = "finished" THEN
            /\ response' = Redirect("projects:detail", "error", "Cannot edit finished projects.")
            /\ UNCHANGED projects
       ELSE IF method = "POST" /\ ProjectFormValid(raw) THEN
            /\ projects' = [projects EXCEPT ![pk].name = StripName(raw)]
            /\ response' = Redirect("projects:detail", "success", "Project updated successfully!")
       ELSE
            response' = Render("projects/edit.html") /\ UNCHANGED projects
    /\ UNCHANGED <<invitations, criteria, visits, assessments, photos, session, nextId, mem>>

project_edit(u, pk, method, raw) ==
    /\ IF u = Anonymous THEN
            response' = LoginRedirect /\ UNCHANGED projects
       ELSE IF pk \notin DOMAIN projects THEN
            response' = NotFound /\ UNCHANGED projects
       ELSE IF u # projects[pk].owner THEN
            /\ response' = Redirect("projects:detail", "error",
                                    "Only the project owner can edit project details.")
            /\ UNCHANGED projects
       ELSE IF projects[pk].status = "finished" THEN
            /\ response' = Redirect("projects:detail", "error", "Cannot edit finished projects.")
            /\ UNCHANGED projects
       ELSE IF method = "POST" /\ ProjectFormValid(raw) THEN
            /\ projects' = [projects EXCEPT ![pk].name = StripName(raw)]
            /\ response' = Redirect("projects:detail", "success", "Project updated successfully!")
       ELSE
            response' = Render("projects/edit.html") /\ UNCHANGED projects
    /\ UNCHANGED <<invitations, criteria, visits, assessments, photos, session, nextId, mem>>

\* project_finish as a toggle: a finished project is reopened
project_finish_toggle(u, pk, method) ==
    /\ IF u = Anonymous THEN
            response' = LoginRedirect /\ UNCHANGED projects
       ELSE IF method # "POST" THEN
            response' = NotAllowed /\ UNCHANGED projects
       ELSE IF pk \notin DOMAIN projects THEN
            response' = NotFound /\ UNCHANGED projects
       ELSE IF u # projects[pk].owner THEN
            /\ response' = Redirect("projects:detail", "error",
                                    "Only the project owner can finish projects.")
            /\ UNCHANGED projects
       ELSE IF projects[pk].status = "finished" THEN
            /\ projects' = [projects EXCEPT ![pk].status = "active", ![pk].finished_at = NoTime]
            /\ response' = Redirect("projects:detail", "success", "Project has been reopened.")
       ELSE
            /\ \E now \in Times : projects' = [projects EXCEPT ![pk] = finish_project(@, now)]
            /\ response' = Redirect("projects:detail", "success",
                                    "Project has been finished and archived.")
    /\ UNCHANGED <<invitations, criteria, visits, assessments, photos, session, nextId, mem>>

project_finish(u, pk, method) ==
    /\ IF u = Anonymous THEN
            response' = LoginRedirect /\ UNCHANGED projects
       ELSE IF method # "POST" THEN
            response' = NotAllowed /\ UNCHANGED projects
       ELSE IF pk \notin DOMAIN projects THEN
            response' = NotFound /\ UNCHANGED projects
       ELSE IF u # projects[pk].owner THEN
            /\ response' = Redirect("projects:detail", "error",
                                    "Only the project owner can finish projects.")
            /\ UNCHANGED projects
       ELSE IF projects[pk].status = "finished" THEN
            /\ response' = Redirect("projects:detail", "warning", "Project is already finished.")
            /\ UNCHANGED projects
       ELSE
            /\ \E now \in Times : projects' = [projects EXCEPT ![pk] = finish_project(@, now)]
            /\ response' = Redirect("projects:detail", "success",
                                    "Project has been finished and archived.")
    /\ UNCHANGED <<invitations, criteria, visits, assessments, photos, session, nextId, mem>>

----------------------------------------------------------------------------
(* ProjectInvitation and the membership views                              *)

\* ProjectInvitationForm: EmailField, then clean_email lower-cases and strips
RawEmails == {"bob@x.io", "Carol@x.io", "dave@x.io", "not-an-email"}
InvitationFormValid(raw) == raw # "not-an-email"
CleanEmail(raw) == IF raw = "Carol@x.io" THEN "carol@x.io" ELSE raw

\* EmailService.send_invitation_email: the result status, or an exception
SendOutcomes == {"success", "error", "exception"}

NewInvitation(pk, email, inviter) ==
    [project |-> pk, email |-> email, invited_by |-> inviter,
     accepted |-> FALSE, accepted_at |-> NoTime]

\* a user table in which no email is found
NoUsersWithEmail(email) == {}

\* User.objects.get(email=email)
UsersWithEmail(email) == {u \in Users : EmailOf[u] = email}

\* the invitation table without its unique_together constraint
InvitationNeverExists(pk, email) == FALSE

\* unique_together = ['project', 'email']
InvitationExists(pk, email) ==
    \E i \in DOMAIN invitations : invitations[i].project = pk /\ invitations[i].email = email

PendingInvitationExists(pk, email) ==
    \E i \in DOMAIN invitations :
        /\ invitations[i].project = pk
        /\ invitations[i].email = email
        /\ ~invitations[i].accepted

\* send_invitation without invitation.delete() after a non-success status
send_invitation_keeping_row(u, pk, method, raw) ==
    /\ IF u = Anonymous THEN
            response' = LoginRedirect /\ UNCHANGED <<invitations, nextId>>
       ELSE IF method # "POST" THEN
            response' = NotAllowed /\ UNCHANGED <<invitations, nextId>>
       ELSE IF pk \notin DOMAIN projects THEN
            response' = NotFound /\ UNCHANGED <<invitations, nextId>>
       ELSE IF u # projects[pk].owner THEN
            /\ response' = Redirect("projects:detail", "error",
                                    "Only the project owner can send invitations.")
            /\ UNCHANGED <<invitations, nextId>>
       ELSE IF projects[pk].status = "finished" THEN
            /\ response' = Redirect("projects:detail", "error",
                                    "Cannot invite collaborators to finished projects.")
            /\ UNCHANGED <<invitations, nextId>>
       ELSE IF ~InvitationFormValid(raw) THEN
            /\ response' = Redirect("projects:detail", "error", "email: Enter a valid email address.")
            /\ UNCHANGED <<invitations, nextId>>
       ELSE IF \E m \in UsersWithEmail(CleanEmail(raw)) : is_member(projects[pk], m) THEN
            /\ response' = Redirect("projects:detail", "warning",
                                    "is already a member of this project.")
            /\ UNCHANGED <<invitations, nextId>>
       ELSE IF PendingInvitationExists(pk, CleanEmail(raw)) THEN
            /\ response' = Redirect("projects:detail", "warning",
                                    "An invitation has already been sent.")
            /\ UNCHANGED <<invitations, nextId>>
       ELSE IF InvitationExists(pk, CleanEmail(raw)) THEN
            \* ProjectInvitation.objects.create violates unique_together:
            \* the IntegrityError is raised outside the try block
            /\ response' = ServerError("IntegrityError")
            /\ UNCHANGED <<invitations, nextId>>
       ELSE
            \* the row stays when the email service reports an error status
            /\ nextId.invitation <= MaxInvitations
            /\ nextId' = [nextId EXCEPT !.invitation = @ + 1]
            /\ \E outcome \in SendOutcomes :
                 IF outcome = "success" THEN
                    /\ invitations' = Put(invitations, nextId.invitation,
                                          NewInvitation(pk, CleanEmail(raw), u))
                    /\ response' = Redirect("projects:detail", "success", "Invitation sent!")
                 ELSE IF outcome = "error" THEN
                    /\ invitations' = Put(invitations, nextId.invitation,
                                          NewInvitation(pk, CleanEmail(raw), u))
                    /\ response' = Redirect("projects:detail", "error",
                                            "Failed to send invitation email: status")
                 ELSE
                    /\ invitations' = invitations
                    /\ response' = Redirect("projects:detail", "error",
                                            "Failed to send invitation email. Please try again.")
    /\ UNCHANGED <<projects, criteria, visits, assessments, photos, session, mem>>

send_invitation(u, pk, method, raw) ==
    /\ IF u = Anonymous THEN
            response' = LoginRedirect /\ UNCHANGED <<invitations, nextId>>
       ELSE IF method # "POST" THEN
            response' = NotAllowed /\ UNCHANGED <<invitations, nextId>>
       ELSE IF pk \notin DOMAIN projects THEN
            response' = NotFound /\ UNCHANGED <<invitations, nextId>>
       ELSE IF u # projects[pk].owner THEN
            /\ response' = Redirect("projects:detail", "error",
                                    "Only the project owner can send invitations.")
            /\ UNCHANGED <<invitations, nextId>>
       ELSE IF projects[pk].status = "finished" THEN
            /\ response' = Redirect("projects:detail", "error",
                                    "Cannot invite collaborators to finished projects.")
            /\ UNCHANGED <<invitations, nextId>>
       ELSE IF ~InvitationFormValid(raw) THEN
            /\ response' = Redirect("projects:detail", "error", "email: Enter a valid email address.")
            /\ UNCHANGED <<invitations, nextId>>
       ELSE IF \E m \in UsersWithEmail(CleanEmail(raw)) : is_member(projects[pk], m) THEN
            /\ response' = Redirect("projects:detail", "warning",
                                    "is already a member of this project.")
            /\ UNCHANGED <<invitations, nextId>>
       ELSE IF PendingInvitationExists(pk, CleanEmail(raw)) THEN
            /\ response' = Redirect("projects:detail", "warning",
                                    "An invitation has already been sent.")
            /\ UNCHANGED <<invitations, nextId>>
       ELSE IF InvitationExists(pk, CleanEmail(raw)) THEN
            \* ProjectInvitation.objects.create violates unique_together:
            \* the IntegrityError is raised outside the try block
            /\ response' = ServerError("IntegrityError")
            /\ UNCHANGED <<invitations, nextId>>
       ELSE
            \* the row is created and its id consumed; it is deleted again
            \* unless the email service reports success
            /\ nextId.invitation <= MaxInvitations
            /\ nextId' = [nextId EXCEPT !.invitation = @ + 1]
            /\ \E outcome \in SendOutcomes :
                 IF outcome = "success" THEN
                    /\ invitations' = Put(invitations, nextId.invitation,
                                          NewInvitation(pk, CleanEmail(raw), u))
                    /\ response' = Redirect("projects:detail", "success", "Invitation sent!")
                 ELSE IF outcome = "error" THEN
                    /\ invitations' = invitations
                    /\ response' = Redirect("projects:detail", "error",
                                            "Failed to send invitation email: status")
                 ELSE
                    /\ invitations' = invitations
                    /\ response' = Redirect("projects:detail", "error",
                                            "Failed to send invitation email. Please try again.")
    /\ UNCHANGED <<projects, criteria, visits, assessments, photos, session, mem>>

\* ProjectInvitation.accept_invitation without the test of accepted
ModelAcceptInvitationAgain(i, user, now) ==
    [invitations |-> [invitations EXCEPT ![i].accepted = TRUE, ![i].accepted_at = now],
     projects |-> [projects EXCEPT ![invitations[i].project].collaborators = @ \cup {user}],
     result |-> TRUE]

\* ProjectInvitation.accept_invitation(user): the rows after the call
ModelAcceptInvitation(i, user, now) ==
    IF ~invitations[i].accepted THEN
        [invitations |-> [invitations EXCEPT ![i].accepted = TRUE, ![i].accepted_at = now],
         projects |-> [projects EXCEPT ![invitations[i].project].collaborators = @ \cup {user}],
         result |-> TRUE]
    ELSE [invitations |-> invitations, projects |-> projects, result |-> FALSE]

\* accept_invitation without the comparison of the emails
accept_invitation_any_email(u, token) ==
    /\ IF ~(token \in DOMAIN invitations /\ ~invitations[token].accepted) THEN
            /\ response' = Redirect("home", "error", "Invalid or expired invitation link.")
            /\ UNCHANGED <<projects, invitations>>
       ELSE IF u # Anonymous THEN
            /\ \E now \in Times :
                /\ invitations' = ModelAcceptInvitation(token, u, now).invitations
                /\ projects' = ModelAcceptInvitation(token, u, now).projects
            /\ response' = Redirect("projects:detail", "success", "You have joined the project!")
       ELSE
            /\ response' = Redirect("account_login?next=accept_invitation", "", "")
            /\ UNCHANGED <<projects, invitations>>
    /\ UNCHANGED <<criteria, visits, assessments, photos, session, nextId, mem>>

\* accept_invitation: no login_required, the token alone selects the row
accept_invitation(u, token) ==
    /\ IF ~(token \in DOMAIN invitations /\ ~invitations[token].accepted) THEN
            /\ response' = Redirect("home", "error", "Invalid or expired invitation link.")
            /\ UNCHANGED <<projects, invitations>>
       ELSE IF u # Anonymous THEN
            IF EmailOf[u] = invitations[token].email THEN
                /\ \E now \in Times :
                    /\ invitations' = ModelAcceptInvitation(token, u, now).invitations
                    /\ projects' = ModelAcceptInvitation(token, u, now).projects
                /\ response' = Redirect("projects:detail", "success", "You have joined the project!")
            ELSE
                /\ response' = Redirect("projects:list", "error",
                                        "This invitation is for another email.")
                /\ UNCHANGED <<projects, invitations>>
       ELSE
            /\ response' = Redirect("account_login?next=accept_invitation", "", "")
            /\ UNCHANGED <<projects, invitations>>
    /\ UNCHANGED <<criteria, visits, assessments, photos, session, nextId, mem>>

remove_collaborator(u, pk, user_id, method) ==
    /\ IF u = Anonymous THEN
            response' = LoginRedirect /\ UNCHANGED projects
       ELSE IF method # "POST" THEN
            response' = NotAllowed /\ UNCHANGED projects
       ELSE IF pk \notin DOMAIN projects \/ user_id \notin Users THEN
            response' = NotFound /\ UNCHANGED projects
       ELSE IF u # projects[pk].owner THEN
            /\ response' = Redirect("projects:detail", "error",
                                    "Only the project owner can remove collaborators.")
            /\ UNCHANGED projects
       ELSE IF projects[pk].status = "finished" THEN
            /\ response' = Redirect("projects:detail", "error", "Cannot modify finished projects.")
            /\ UNCHANGED projects
       ELSE IF user_id \in projects[pk].collaborators THEN
            /\ projects' = [projects EXCEPT ![pk].collaborators = @ \ {user_id}]
            /\ response' = Redirect("projects:detail", "success",
                                    "has been removed from the project.")
       ELSE
            /\ response' = Redirect("projects:detail", "warning",
                                    "is not a collaborator on this project.")
            /\ UNCHANGED projects
    /\ UNCHANGED <<invitations, criteria, visits, assessments, photos, session, nextId, mem>>

\* cancel_invitation without the test of invitation.accepted
cancel_invitation_any_state(u, pk, invitation_id, method) ==
    /\ IF u = Anonymous THEN
            response' = LoginRedirect /\ UNCHANGED invitations
       ELSE IF method # "POST" THEN
            response' = NotAllowed /\ UNCHANGED invitations
       ELSE IF pk \notin DOMAIN projects
               \/ invitation_id \notin DOMAIN invitations
               \/ invitations[invitation_id].project # pk THEN
            response' = NotFound /\ UNCHANGED invitations
       ELSE IF u # projects[pk].owner THEN
            /\ response' = Redirect("projects:detail", "error",
                                    "Only the project owner can cancel invitations.")
            /\ UNCHANGED invitations
       ELSE
            /\ invitations' = Drop(invitations, {invitation_id})
            /\ response' = Redirect("projects:detail", "success", "Invitation has been cancelled.")
    /\ UNCHANGED <<projects, criteria, visits, assessments, photos, session, nextId, mem>>

cancel_invitation(u, pk, invitation_id, method) ==
    /\ IF u = Anonymous THEN
            response' = LoginRedirect /\ UNCHANGED invitations
       ELSE IF method # "POST" THEN
            response' = NotAllowed /\ UNCHANGED invitations
       ELSE IF pk \notin DOMAIN projects
               \/ invitation_id \notin DOMAIN invitations
               \/ invitations[invitation_id].project # pk THEN
            response' = NotFound /\ UNCHANGED invitations
       ELSE IF u # projects[pk].owner THEN
            /\ response' = Redirect("projects:detail", "error",
                                    "Only the project owner can cancel invitations.")
            /\ UNCHANGED invitations
       ELSE IF invitations[invitation_id].accepted THEN
            /\ response' = Redirect("projects:detail", "warning",
                                    "Cannot cancel an already accepted invitation.")
            /\ UNCHANGED invitations
       ELSE
            /\ invitations' = Drop(invitations, {invitation_id})
            /\ response' = Redirect("projects:detail", "success", "Invitation has been cancelled.")
    /\ UNCHANGED <<projects, criteria, visits, assessments, photos, session, nextId, mem>>

----------------------------------------------------------------------------
(* Criteria                                                                *)

\* bound on the Criteria ids handed out
MaxCriteria == 2
CriteriaIds == 1..MaxCriteria

\* project.criteria: the ids of the project's Criteria rows
CriteriaOf(pk) == {c \in DOMAIN criteria : criteria[c].project = pk}

\* the criteria table without its unique_together constraint
CriteriaNameNeverTaken(pk, name, self) == FALSE

\* unique_together = ['project', 'name']: would a row (pk, name) collide with
\* a row other than `self`
CriteriaNameTaken(pk, name, self) ==
    \E c \in CriteriaOf(pk) : c # self /\ criteria[c].name = name

\* CriteriaForm: clean_name strips and wants 2 characters; type is a choice;
\* order is a non-negative integer.  weight is advisory and not modelled.
RawCriteriaNames == {"Price", " Notes ", "x"}
StripCriteriaName(raw) == IF raw = " Notes " THEN "Notes" ELSE raw
RawTypes == TYPE_CHOICES \cup {"colour"}
RawOrders == {0, 1}
CriteriaFormValid(raw, type) ==
    Len(StripCriteriaName(raw)) >= 2 /\ type \in TYPE_CHOICES

\* project.criteria.aggregate(Max('order'))['max_order'] or 0
RECURSIVE MaxOf(_)
MaxOf(S) == IF S = {} THEN 0
            ELSE LET x == CHOOSE y \in S : TRUE
                     m == MaxOf(S \ {x})
                 IN  IF x > m THEN x ELSE m
MaxOrder(pk) == MaxOf({criteria[c].order : c \in CriteriaOf(pk)})

\* on_delete=CASCADE from Criteria to VisitAssessment
AssessmentsWithoutCriteria(cs) == {a \in assessments : a.criteria \notin cs}

criteria_list(u, pk) ==
    /\ response' =
        IF u = Anonymous THEN LoginRedirect
        ELSE IF pk \notin DOMAIN projects THEN NotFound
        ELSE IF ~is_member(projects[pk], u)
            THEN Redirect("projects:list", "error", "You don't have access to this project.")
        ELSE Render("projects/criteria_list.html")
    /\ UNCHANGED <<dbVars, session, nextId, mem>>

criteria_create(u, pk, method, raw, type, order) ==
    /\ IF u = Anonymous THEN
            response' = LoginRedirect /\ UNCHANGED <<criteria, nextId>>
       ELSE IF pk \notin DOMAIN projects THEN
            response' = NotFound /\ UNCHANGED <<criteria, nextId>>
       ELSE IF ~is_member(projects[pk], u) THEN
            /\ response' = Redirect("projects:list", "error", "You don't have access to this project.")
            /\ UNCHANGED <<criteria, nextId>>
       ELSE IF projects[pk].status # "active" THEN
            /\ response' = Redirect("projects:criteria_list", "error",
                                    "Cannot add criteria to finished projects.")
            /\ UNCHANGED <<criteria, nextId>>
       ELSE IF method = "POST" /\ CriteriaFormValid(raw, type) THEN
            IF CriteriaNameTaken(pk, StripCriteriaName(raw), 0) THEN
                \* criteria.save() raises IntegrityError; the view catches it
                \* and shows the form again
                /\ response' = RenderWith("projects/criteria_form.html", "error",
                        "A criteria with this name already exists in this project.")
                /\ UNCHANGED <<criteria, nextId>>
            ELSE
                /\ nextId.criteria <= MaxCriteria
                /\ criteria' = Put(criteria, nextId.criteria,
                        [project |-> pk, name |-> StripCriteriaName(raw), type |-> type,
                         order |-> IF order = 0 THEN MaxOrder(pk) + 1 ELSE order])
                /\ nextId' = [nextId EXCEPT !.criteria = @ + 1]
                /\ response' = Redirect("projects:criteria_list", "success",
                                        "Criteria created successfully!")
       ELSE
            response' = Render("projects/criteria_form.html") /\ UNCHANGED <<criteria, nextId>>
    /\ UNCHANGED <<projects, invitations, visits, assessments, photos, session, mem>>

criteria_edit(u, pk, criteria_id, method, raw, type, order) ==
    /\ IF u = Anonymous THEN
            response' = LoginRedirect /\ UNCHANGED criteria
       ELSE IF pk \notin DOMAIN projects \/ criteria_id \notin CriteriaOf(pk) THEN
            response' = NotFound /\ UNCHANGED criteria
       ELSE IF ~is_member(projects[pk], u) THEN
            /\ response' = Redirect("projects:list", "error", "You don't have access to this project.")
            /\ UNCHANGED criteria
       ELSE IF projects[pk].status # "active" THEN
            /\ response' = Redirect("projects:criteria_list", "error",
                                    "Cannot edit criteria in finished projects.")
            /\ UNCHANGED criteria
       ELSE IF method = "POST" /\ CriteriaFormValid(raw, type) THEN
            IF CriteriaNameTaken(pk, StripCriteriaName(raw), criteria_id) THEN
                \* form.save() raises IntegrityError; caught, form shown again
                /\ response' = RenderWith("projects/criteria_form.html", "error",
                        "A criteria with this name already exists in this project.")
                /\ UNCHANGED criteria
            ELSE
                \* the row takes the submitted name, type and order; the
                \* assessments that reference it are not touched
                /\ criteria' = [criteria EXCEPT ![criteria_id] =
                        [@ EXCEPT !.name = StripCriteriaName(raw), !.type = type, !.order = order]]
                /\ response' = Redirect("projects:criteria_list", "success",
                                        "Criteria updated successfully!")
       ELSE
            response' = Render("projects/criteria_form.html") /\ UNCHANGED criteria
    /\ UNCHANGED <<projects, invitations, visits, assessments, photos, session, nextId, mem>>

\* criteria_delete without the check of the project status
criteria_delete_any_status(u, pk, criteria_id, method) ==
    /\ IF u = Anonymous THEN
            response' = LoginRedirect /\ UNCHANGED <<criteria, assessments>>
       ELSE IF method # "POST" THEN
            response' = NotAllowed /\ UNCHANGED <<criteria, assessments>>
       ELSE IF pk \notin DOMAIN projects \/ criteria_id \notin CriteriaOf(pk) THEN
            response' = NotFound /\ UNCHANGED <<criteria, assessments>>
       ELSE IF ~is_member(projects[pk], u) THEN
            /\ response' = Redirect("projects:list", "error", "You don't have access to this project.")
            /\ UNCHANGED <<criteria, assessments>>
       ELSE
            /\ criteria' = Drop(criteria, {criteria_id})
            /\ assessments' = AssessmentsWithoutCriteria({criteria_id})
            /\ response' = Redirect("projects:criteria_list", "success",
                                    "Criteria deleted successfully!")
    /\ UNCHANGED <<projects, invitations, visits, photos, session, nextId, mem>>

criteria_delete(u, pk, criteria_id, method) ==
    /\ IF u = Anonymous THEN
            response' = LoginRedirect /\ UNCHANGED <<criteria, assessments>>
       ELSE IF method # "POST" THEN
            response' = NotAllowed /\ UNCHANGED <<criteria, assessments>>
       ELSE IF pk \notin DOMAIN projects \/ criteria_id \notin CriteriaOf(pk) THEN
            response' = NotFound /\ UNCHANGED <<criteria, assessments>>
       ELSE IF ~is_member(projects[pk], u) THEN
            /\ response' = Redirect("projects:list", "error", "You don't have access to this project.")
            /\ UNCHANGED <<criteria, assessments>>
       ELSE IF projects[pk].status # "active" THEN
            /\ response' = Redirect("projects:criteria_list", "error",
                                    "Cannot delete criteria from finished projects.")
            /\ UNCHANGED <<criteria, assessments>>
       ELSE
            /\ criteria' = Drop(criteria, {criteria_id})
            /\ assessments' = AssessmentsWithoutCriteria({criteria_id})
            /\ response' = Redirect("projects:criteria_list", "success",
                                    "Criteria deleted successfully!")
    /\ UNCHANGED <<projects, invitations, visits, photos, session, nextId, mem>>

\* DefaultCriteriaForm.get_template_criteria: the rows of each template,
\* here two templates of two rows each (the source's have eight to ten)
TEMPLATE_CHOICES == {"basic_housing", "rental_apartment"}
RawTemplates == TEMPLATE_CHOICES \cup {"castle"}
TemplateCriteria(template) ==
    IF template = "basic_housing" THEN
        << [name |-> "Price", type |-> "numeric", order |-> 1],
           [name |-> "Notes", type |-> "text", order |-> 2] >>
    ELSE IF template = "rental_apartment" THEN
        << [name |-> "Price", type |-> "numeric", order |-> 1],
           [name |-> "Noise", type |-> "rating", order |-> 2] >>
    ELSE << >>

\* the loop of add_default_criteria over the template rows from index i:
\* a row is created unless the project has a criteria of that name
RECURSIVE AddTemplateRows(_, _, _, _, _)
AddTemplateRows(rows, i, pk, table, next) ==
    IF i > Len(rows) THEN [criteria |-> table, next |-> next, added |-> 0]
    ELSE IF \E c \in DOMAIN table : table[c].project = pk /\ table[c].name = rows[i].name
        THEN AddTemplateRows(rows, i + 1, pk, table, next)
    ELSE LET rest == AddTemplateRows(rows, i + 1, pk,
                        Put(table, next, [project |-> pk, name |-> rows[i].name,
                                          type |-> rows[i].type, order |-> rows[i].order]),
                        next + 1)
         IN  [rest EXCEPT !.added = @ + 1]

add_default_criteria(u, pk, method, template) ==
    /\ IF u = Anonymous THEN
            response' = LoginRedirect /\ UNCHANGED <<criteria, nextId>>
       ELSE IF pk \notin DOMAIN projects THEN
            response' = NotFound /\ UNCHANGED <<criteria, nextId>>
       ELSE IF ~is_member(projects[pk], u) THEN
            /\ response' = Redirect("projects:list", "error", "You don't have access to this project.")
            /\ UNCHANGED <<criteria, nextId>>
       ELSE IF projects[pk].status # "active" THEN
            /\ response' = Redirect("projects:criteria_list", "error",
                                    "Cannot add criteria to finished projects.")
            /\ UNCHANGED <<criteria, nextId>>
       ELSE IF method = "POST" /\ template \in TEMPLATE_CHOICES THEN
            LET out == AddTemplateRows(TemplateCriteria(template), 1, pk, criteria, nextId.criteria)
            IN  /\ out.next <= MaxCriteria + 1
                /\ criteria' = out.criteria
                /\ nextId' = [nextId EXCEPT !.criteria = out.next]
                /\ response' = IF out.added > 0
                               THEN Redirect("projects:criteria_list", "success",
                                             "Added criteria from template!")
                               ELSE Redirect("projects:criteria_list", "info",
                                    "All criteria from this template already exist in your project.")
       ELSE
            /\ response' = Render("projects/add_default_criteria.html")
            /\ UNCHANGED <<criteria, nextId>>
    /\ UNCHANGED <<projects, invitations, visits, assessments, photos, session, mem>>

----------------------------------------------------------------------------
(* Visits: the forms                                                       *)

\* bounds on the Visit and VisitPhoto ids handed out
MaxVisits == 1
MaxPhotos == 2
VisitIds == 1..MaxVisits

\* project.realtors: the Realtor rows of the project (Realtor is not among the
\* models of models.py; the project is given one realtor)
RealtorIds == {1}
NoRealtor == 0

VisitsOf(pk) == {v \in DOMAIN visits : visits[v].project = pk}

\* date.isoformat() and datetime.fromisoformat(s).date(), on the days of one month
IsoFormat(day) == "2024-01-0" \o NatToStr(day)
IsIsoDate(str) == \E day \in 1..MaxLiteral : IsoFormat(day) = str
FromIsoFormat(str) == CHOOSE day \in 1..MaxLiteral : IsoFormat(day) = str

\* VisitForm as posted: name, visit_date and realtor_choice (address, notes
\* and the hidden realtor field ride along unvalidated and are not modelled)
RawVisitNames == {"Loft", "x"}
RawVisitDates == {"2024-01-03", "soon"}
RawRealtorChoices == {"", "add_new", "1", "8"}
RawVisits == [name : RawVisitNames, visit_date : RawVisitDates, realtor_choice : RawRealtorChoices]

\* the realtor VisitForm.clean puts into cleaned_data
ChosenRealtor(raw) == IF raw.realtor_choice = "1" THEN 1 ELSE NoRealtor

\* VisitForm.is_valid: clean_name wants 2 characters, visit_date a date,
\* realtor_choice one of the offered choices
VisitFormValid(raw) ==
    /\ Len(raw.name) >= 2
    /\ IsIsoDate(raw.visit_date)
    /\ raw.realtor_choice \in {"", "add_new"} \cup {NatToStr(r) : r \in RealtorIds}

\* what step 1 leaves in request.session['visit_data']: the date as an ISO
\* string; realtor_id when a realtor was chosen, else the key realtor = None
\* (realtor_id = NoRealtor stands for that key)
SessionVisitData(raw) ==
    [name |-> raw.name,
     visit_date |-> IsoFormat(FromIsoFormat(raw.visit_date)),
     realtor_id |-> ChosenRealtor(raw)]

\* the values posted for the criteria fields of VisitAssessmentForm
RawPostValues == {"", "3", "7", "abc"}
AssessmentPosts(pk) == [CriteriaOf(pk) -> RawPostValues]
NoPost == << >>
RatingMin == 1
RatingMax == 5

\* the field VisitAssessmentForm builds for a criteria type, applied to a
\* posted string: BooleanField, DecimalField, IntegerField(1..5), CharField
CleanField(type, raw) ==
    IF type = "boolean" THEN [valid |-> TRUE, val |-> PyBool(raw \notin {"", "false", "0"})]
    ELSE IF type = "numeric" THEN
        IF raw = "" THEN [valid |-> TRUE, val |-> PyNone]
        ELSE IF IsIntLiteral(raw) THEN [valid |-> TRUE, val |-> PyDecimal(100 * ParseInt(raw))]
        ELSE [valid |-> FALSE, val |-> PyNone]
    ELSE IF type = "rating" THEN
        IF raw = "" THEN [valid |-> TRUE, val |-> PyNone]
        ELSE IF IsIntLiteral(raw) /\ ParseInt(raw) >= RatingMin /\ ParseInt(raw) <= RatingMax
            THEN [valid |-> TRUE, val |-> PyInt(ParseInt(raw))]
        ELSE [valid |-> FALSE, val |-> PyNone]
    ELSE [valid |-> TRUE, val |-> PyStr(raw)]

AssessmentFormValid(pk, post) ==
    \A c \in CriteriaOf(pk) : CleanField(criteria[c].type, post[c]).valid

\* save_assessments without its test of the cleaned value
WrittenCriteriaAll(pk, post) == CriteriaOf(pk)

\* the criteria of the project whose cleaned value save_assessments writes:
\* value is not None and value != ''
WrittenCriteria(pk, post) ==
    {c \in CriteriaOf(pk) :
        LET value == CleanField(criteria[c].type, post[c]).val
        IN  value.k # "None" /\ ~(value.k = "str" /\ value.v = "")}

AssessmentRow(visit_id, c, slots) ==
    [visit |-> visit_id, criteria |-> c,
     value_text |-> slots.value_text, value_numeric |-> slots.value_numeric,
     value_boolean |-> slots.value_boolean, value_rating |-> slots.value_rating]

SlotsOf(row) ==
    [value_text |-> row.value_text, value_numeric |-> row.value_numeric,
     value_boolean |-> row.value_boolean, value_rating |-> row.value_rating]

\* VisitAssessment.objects.create(visit, criteria) under
\* unique_together = ['visit', 'criteria']
AssessmentCreate(rows, visit_id, c) ==
    IF \E a \in rows : a.visit = visit_id /\ a.criteria = c
    THEN [raised |-> "IntegrityError", rows |-> rows]
    ELSE [raised |-> "", rows |-> rows \cup {AssessmentRow(visit_id, c, NewAssessment)}]

\* WriteAssessment with a row added for every write, none looked up
WriteAssessmentAdding(rows, visit_id, c, value) ==
    rows \cup {AssessmentRow(visit_id, c,
                    SaveRow(set_value(NewAssessment, criteria[c].type, value).val))}

\* VisitAssessment.objects.get_or_create(visit, criteria), set_value, save:
\* the rows of the table after one criteria has been written
WriteAssessment(rows, visit_id, c, value) ==
    LET found == {a \in rows : a.visit = visit_id /\ a.criteria = c}
        old == IF found = {} THEN NewAssessment ELSE SlotsOf(CHOOSE a \in found : TRUE)
        new == AssessmentRow(visit_id, c, SaveRow(set_value(old, criteria[c].type, value).val))
    IN  (rows \ found) \cup {new}

\* VisitAssessmentForm.save_assessments(visit): the loop over the criteria
RECURSIVE SaveAssessmentsLoop(_, _, _, _)
SaveAssessmentsLoop(rows, visit_id, todo, post) ==
    IF todo = {} THEN rows
    ELSE LET c == CHOOSE x \in todo : \A y \in todo : x <= y
         IN  SaveAssessmentsLoop(
                WriteAssessment(rows, visit_id, c, CleanField(criteria[c].type, post[c]).val),
                visit_id, todo \ {c}, post)

save_assessments(rows, visit_id, pk, post) ==
    SaveAssessmentsLoop(rows, visit_id, WrittenCriteria(pk, post), post)

----------------------------------------------------------------------------
(* Visits: the views                                                       *)

NoVisitData == [name |-> "", visit_date |-> "", realtor_id |-> NoRealtor]
NoVisitId == 0
EmptySession == [visit_data |-> NoVisitData, visit_id |-> NoVisitId]

\* request.FILES of step 3: photo_<i> -> what was uploaded under that name
PhotoSlots == 5
UploadKinds == {"image", "too_large", "not_image"}
NoFiles == << >>
Uploads == {NoFiles, (0 :> "image"), (0 :> "too_large" @@ 1 :> "image"),
            (0 :> "not_image"), (5 :> "image")}

\* the loop over range(5): the slots whose file is stored as a VisitPhoto
AcceptedSlots(files) ==
    {i \in 0..(PhotoSlots - 1) : i \in DOMAIN files /\ files[i] = "image"}

RECURSIVE StorePhotos(_, _, _, _)
StorePhotos(rows, visit_id, slots, next) ==
    IF slots = {} THEN [photos |-> rows, next |-> next]
    ELSE LET i == CHOOSE x \in slots : \A y \in slots : x <= y
         IN  StorePhotos(rows \cup {[id |-> next, visit |-> visit_id, order |-> i]},
                         visit_id, slots \ {i}, next + 1)

\* the checks visit_create starts with; NoResponse when they pass
VisitCreateGate(u, pk) ==
    IF u = Anonymous THEN LoginRedirect
    ELSE IF pk \notin DOMAIN projects THEN NotFound
    ELSE IF ~is_member(projects[pk], u)
        THEN Redirect("projects:list", "error", "You don't have access to this project.")
    ELSE IF projects[pk].status # "active"
        THEN Redirect("projects:visit_list", "error", "Cannot add visits to finished projects.")
    ELSE IF CriteriaOf(pk) = {}
        THEN Redirect("projects:criteria_list", "warning",
                      "Please add some evaluation criteria before logging visits.")
    ELSE NoResponse

\* VisitCreateShow without the tests of the session
VisitCreateShowAnyStep(u, pk, step) ==
    IF step = "1" THEN Render("projects/visit_create_step1.html")
    ELSE IF step = "2" THEN Render("projects/visit_create_step2.html")
    ELSE IF step = "3" THEN
        IF session[u].visit_id \notin VisitsOf(pk) THEN NotFound
        ELSE Render("projects/visit_create_step3.html")
    ELSE Redirect("projects:visit_create", "", "")

\* the part of visit_create that shows a step: a GET, or a POST whose form
\* had errors
VisitCreateShow(u, pk, step) ==
    IF step = "1" THEN Render("projects/visit_create_step1.html")
    ELSE IF step = "2" THEN
        IF session[u].visit_data = NoVisitData
        THEN Redirect("projects:visit_create", "error", "Please complete step 1 first.")
        ELSE Render("projects/visit_create_step2.html")
    ELSE IF step = "3" THEN
        IF session[u].visit_id = NoVisitId
        THEN Redirect("projects:visit_create", "error", "Please complete steps 1 and 2 first.")
        ELSE IF session[u].visit_id \notin VisitsOf(pk) THEN NotFound
        ELSE Render("projects/visit_create_step3.html")
    ELSE Redirect("projects:visit_create", "", "")

visit_create_step1(u, pk, raw) ==
    /\ IF raw.realtor_choice = "add_new" THEN
            /\ response' = Redirect("realtors/create", "", "")
            /\ UNCHANGED session
       ELSE IF VisitFormValid(raw) THEN
            /\ session' = [session EXCEPT ![u].visit_data = SessionVisitData(raw)]
            /\ response' = Redirect("projects:visit_create?step=2", "", "")
       ELSE
            /\ response' = VisitCreateShow(u, pk, "1")
            /\ UNCHANGED session
    /\ UNCHANGED <<visits, assessments, photos, nextId>>

\* step 2 without `del request.session['visit_data']`
visit_create_step2_keeping_data(u, pk, post) ==
    IF ~AssessmentFormValid(pk, post) THEN
        /\ response' = VisitCreateShow(u, pk, "2")
        /\ UNCHANGED <<visits, assessments, photos, session, nextId>>
    ELSE IF session[u].visit_data = NoVisitData THEN
        /\ response' = Redirect("projects:visit_create", "error",
                                "Session expired. Please start over.")
        /\ UNCHANGED <<visits, assessments, photos, session, nextId>>
    ELSE IF session[u].visit_data.realtor_id = NoRealtor THEN
        \* visit_data still holds the key realtor (None), so
        \* Visit.objects.create(realtor=realtor, **visit_data) raises TypeError
        \* before any row is written; the except branch reports it
        /\ response' = Redirect("projects:visit_create", "error", "Error creating visit")
        /\ UNCHANGED <<visits, assessments, photos, session, nextId>>
    ELSE
        /\ nextId.visit <= MaxVisits
        /\ visits' = Put(visits, nextId.visit,
                [project |-> pk,
                 name |-> session[u].visit_data.name,
                 visit_date |-> FromIsoFormat(session[u].visit_data.visit_date),
                 realtor |-> IF session[u].visit_data.realtor_id \in RealtorIds
                             THEN session[u].visit_data.realtor_id ELSE NoRealtor,
                 created_by |-> u])
        /\ assessments' = save_assessments(assessments, nextId.visit, pk, post)
        /\ session' = [session EXCEPT ![u].visit_id = nextId.visit]
        /\ nextId' = [nextId EXCEPT !.visit = @ + 1]
        /\ response' = Redirect("projects:visit_create?step=3", "", "")
        /\ UNCHANGED photos

\* the Visit row step 2 creates from request.session['visit_data']
VisitFromSession(u, pk) ==
    [project |-> pk,
     name |-> session[u].visit_data.name,
     visit_date |-> FromIsoFormat(session[u].visit_data.visit_date),
     realtor |-> IF session[u].visit_data.realtor_id \in RealtorIds
                 THEN session[u].visit_data.realtor_id ELSE NoRealtor,
     created_by |-> u]

\* the criteria at which assessment.set_value(value) raises inside the loop
\* of save_assessments
SaveAssessmentsRaises(pk, post) ==
    {c \in WrittenCriteria(pk, post) :
        set_value(NewAssessment, criteria[c].type,
                  CleanField(criteria[c].type, post[c]).val).raised # ""}

\* step 2 with the Visit row written before the failing call is noticed
visit_create_step2_visit_first(u, pk, post) ==
    IF ~AssessmentFormValid(pk, post) THEN
        /\ response' = VisitCreateShow(u, pk, "2")
        /\ UNCHANGED <<visits, assessments, photos, session, nextId>>
    ELSE IF session[u].visit_data = NoVisitData THEN
        /\ response' = Redirect("projects:visit_create", "error",
                                "Session expired. Please start over.")
        /\ UNCHANGED <<visits, assessments, photos, session, nextId>>
    ELSE IF session[u].visit_data.realtor_id = NoRealtor THEN
        \* visit_data still holds the key realtor (None), so
        \* Visit.objects.create(realtor=realtor, **visit_data) raises TypeError
        \* before any row is written; the except branch reports it
        /\ nextId.visit <= MaxVisits
        /\ visits' = Put(visits, nextId.visit, VisitFromSession(u, pk))
        /\ nextId' = [nextId EXCEPT !.visit = @ + 1]
        /\ response' = Redirect("projects:visit_create", "error", "Error creating visit")
        /\ UNCHANGED <<assessments, photos, session>>
    ELSE IF SaveAssessmentsRaises(pk, post) # {} THEN
        \* an exception out of save_assessments reaches the same except branch
        \* after Visit.objects.create and the writes before it have been
        \* committed (the view opens no transaction)
        /\ nextId.visit <= MaxVisits
        /\ visits' = Put(visits, nextId.visit, VisitFromSession(u, pk))
        /\ assessments' = SaveAssessmentsLoop(assessments, nextId.visit,
                {c \in WrittenCriteria(pk, post) :
                    \A r \in SaveAssessmentsRaises(pk, post) : c < r}, post)
        /\ nextId' = [nextId EXCEPT !.visit = @ + 1]
        /\ response' = Redirect("projects:visit_create", "error", "Error creating visit")
        /\ UNCHANGED <<photos, session>>
    ELSE
        /\ nextId.visit <= MaxVisits
        /\ visits' = Put(visits, nextId.visit, VisitFromSession(u, pk))
        /\ assessments' = save_assessments(assessments, nextId.visit, pk, post)
        /\ session' = [session EXCEPT ![u] = [visit_data |-> NoVisitData,
                                              visit_id |-> nextId.visit]]
        /\ nextId' = [nextId EXCEPT !.visit = @ + 1]
        /\ response' = Redirect("projects:visit_create?step=3", "", "")
        /\ UNCHANGED photos

visit_create_step2(u, pk, post) ==
    IF ~AssessmentFormValid(pk, post) THEN
        /\ response' = VisitCreateShow(u, pk, "2")
        /\ UNCHANGED <<visits, assessments, photos, session, nextId>>
    ELSE IF session[u].visit_data = NoVisitData THEN
        /\ response' = Redirect("projects:visit_create", "error",
                                "Session expired. Please start over.")
        /\ UNCHANGED <<visits, assessments, photos, session, nextId>>
    ELSE IF session[u].visit_data.realtor_id = NoRealtor THEN
        \* visit_data still holds the key realtor (None), so
        \* Visit.objects.create(realtor=realtor, **visit_data) raises TypeError
        \* before any row is written; the except branch reports it
        /\ response' = Redirect("projects:visit_create", "error", "Error creating visit")
        /\ UNCHANGED <<visits, assessments, photos, session, nextId>>
    ELSE IF SaveAssessmentsRaises(pk, post) # {} THEN
        \* an exception out of save_assessments reaches the same except branch
        \* after Visit.objects.create and the writes before it have been
        \* committed (the view opens no transaction)
        /\ nextId.visit <= MaxVisits
        /\ visits' = Put(visits, nextId.visit, VisitFromSession(u, pk))
        /\ assessments' = SaveAssessmentsLoop(assessments, nextId.visit,
                {c \in WrittenCriteria(pk, post) :
                    \A r \in SaveAssessmentsRaises(pk, post) : c < r}, post)
        /\ nextId' = [nextId EXCEPT !.visit = @ + 1]
        /\ response' = Redirect("projects:visit_create", "error", "Error creating visit")
        /\ UNCHANGED <<photos, session>>
    ELSE
        /\ nextId.visit <= MaxVisits
        /\ visits' = Put(visits, nextId.visit, VisitFromSession(u, pk))
        /\ assessments' = save_assessments(assessments, nextId.visit, pk, post)
        /\ session' = [session EXCEPT ![u] = [visit_data |-> NoVisitData,
                                              visit_id |-> nextId.visit]]
        /\ nextId' = [nextId EXCEPT !.visit = @ + 1]
        /\ response' = Redirect("projects:visit_create?step=3", "", "")
        /\ UNCHANGED photos

\* step 3 without the del request.session['visit_id'] after the uploads
visit_create_step3_keeping_id(u, pk, files) ==
    IF session[u].visit_id = NoVisitId THEN
        /\ response' = Redirect("projects:visit_create", "error",
                                "Session expired. Please start over.")
        /\ UNCHANGED <<visits, assessments, photos, session, nextId>>
    ELSE IF ~(session[u].visit_id \in VisitsOf(pk)) THEN
        /\ response' = NotFound
        /\ UNCHANGED <<visits, assessments, photos, session, nextId>>
    ELSE
        LET out == StorePhotos(photos, session[u].visit_id, AcceptedSlots(files), nextId.photo)
        IN  /\ out.next <= MaxPhotos + 1
            /\ photos' = out.photos
            /\ nextId' = [nextId EXCEPT !.photo = out.next]
            /\ UNCHANGED session
            /\ response' = Redirect("projects:visit_detail", "success",
                                    "Visit created successfully!")
            /\ UNCHANGED <<visits, assessments>>

visit_create_step3(u, pk, files) ==
    IF session[u].visit_id = NoVisitId THEN
        /\ response' = Redirect("projects:visit_create", "error",
                                "Session expired. Please start over.")
        /\ UNCHANGED <<visits, assessments, photos, session, nextId>>
    ELSE IF ~(session[u].visit_id \in VisitsOf(pk)) THEN
        /\ response' = NotFound
        /\ UNCHANGED <<visits, assessments, photos, session, nextId>>
    ELSE
        LET out == StorePhotos(photos, session[u].visit_id, AcceptedSlots(files), nextId.photo)
        IN  /\ out.next <= MaxPhotos + 1
            /\ photos' = out.photos
            /\ nextId' = [nextId EXCEPT !.photo = out.next]
            /\ session' = [session EXCEPT ![u].visit_id = NoVisitId]
            /\ response' = Redirect("projects:visit_detail", "success",
                                    "Visit created successfully!")
            /\ UNCHANGED <<visits, assessments>>

\* visit_create: one view for the three steps; step is request.GET['step']
visit_create(u, pk, method, step, raw, post, files) ==
    /\ IF VisitCreateGate(u, pk) # NoResponse THEN
            /\ response' = VisitCreateGate(u, pk)
            /\ UNCHANGED <<visits, assessments, photos, session, nextId>>
       ELSE IF method = "POST" /\ step = "1" THEN visit_create_step1(u, pk, raw)
       ELSE IF method = "POST" /\ step = "2" THEN visit_create_step2(u, pk, post)
       ELSE IF method = "POST" /\ step = "3" THEN visit_create_step3(u, pk, files)
       ELSE
            /\ response' = VisitCreateShow(u, pk, step)
            /\ UNCHANGED <<visits, assessments, photos, session, nextId>>
    /\ UNCHANGED <<projects, invitations, criteria, mem>>

visit_list(u, pk) ==
    /\ response' =
        IF u = Anonymous THEN LoginRedirect
        ELSE IF pk \notin DOMAIN projects THEN NotFound
        ELSE IF ~is_member(projects[pk], u)
            THEN Redirect("projects:list", "error", "You don't have access to this project.")
        ELSE Render("projects/visit_list.html")
    /\ UNCHANGED <<dbVars, session, nextId, mem>>

visit_detail(u, pk, visit_id) ==
    /\ response' =
        IF u = Anonymous THEN LoginRedirect
        ELSE IF pk \notin DOMAIN projects \/ visit_id \notin VisitsOf(pk) THEN NotFound
        ELSE IF ~is_member(projects[pk], u)
            THEN Redirect("projects:list", "error", "You don't have access to this project.")
        ELSE Render("projects/visit_detail.html")
    /\ UNCHANGED <<dbVars, session, nextId, mem>>

visit_edit(u, pk, visit_id, method, raw, post) ==
    /\ IF u = Anonymous THEN
            response' = LoginRedirect /\ UNCHANGED <<visits, assessments>>
       ELSE IF pk \notin DOMAIN projects \/ visit_id \notin VisitsOf(pk) THEN
            response' = NotFound /\ UNCHANGED <<visits, assessments>>
       ELSE IF ~is_member(projects[pk], u) THEN
            /\ response' = Redirect("projects:list", "error", "You don't have access to this project.")
            /\ UNCHANGED <<visits, assessments>>
       ELSE IF projects[pk].status # "active" THEN
            /\ response' = Redirect("projects:visit_detail", "error",
                                    "Cannot edit visits in finished projects.")
            /\ UNCHANGED <<visits, assessments>>
       ELSE IF method = "POST" /\ VisitFormValid(raw) /\ AssessmentFormValid(pk, post) THEN
            /\ visits' = [visits EXCEPT ![visit_id] =
                    [@ EXCEPT !.name = raw.name,
                              !.visit_date = FromIsoFormat(raw.visit_date),
                              !.realtor = ChosenRealtor(raw)]]
            /\ assessments' = save_assessments(assessments, visit_id, pk, post)
            /\ response' = Redirect("projects:visit_detail", "success",
                                    "Visit updated successfully!")
       ELSE
            response' = Render("projects/visit_edit.html") /\ UNCHANGED <<visits, assessments>>
    /\ UNCHANGED <<projects, invitations, criteria, photos, session, nextId, mem>>

visit_delete(u, pk, visit_id, method) ==
    /\ IF u = Anonymous THEN
            response' = LoginRedirect /\ UNCHANGED <<visits, assessments, photos>>
       ELSE IF method # "POST" THEN
            response' = NotAllowed /\ UNCHANGED <<visits, assessments, photos>>
       ELSE IF pk \notin DOMAIN projects \/ visit_id \notin VisitsOf(pk) THEN
            response' = NotFound /\ UNCHANGED <<visits, assessments, photos>>
       ELSE IF ~is_member(projects[pk], u) THEN
            /\ response' = Redirect("projects:list", "error", "You don't have access to this project.")
            /\ UNCHANGED <<visits, assessments, photos>>
       ELSE IF projects[pk].status # "active" THEN
            /\ response' = Redirect("projects:visit_detail", "error",
                                    "Cannot delete visits from finished projects.")
            /\ UNCHANGED <<visits, assessments, photos>>
       ELSE
            \* on_delete=CASCADE removes the visit's assessments and photos
            /\ visits' = Drop(visits, {visit_id})
            /\ assessments' = {a \in assessments : a.visit # visit_id}
            /\ photos' = {ph \in photos : ph.visit # visit_id}
            /\ response' = Redirect("projects:visit_list", "success",
                                    "Visit deleted successfully!")
    /\ UNCHANGED <<projects, invitations, criteria, session, nextId, mem>>

\* comparison_table without the two tests for data to compare
comparison_table_unchecked(u, pk) ==
    /\ response' =
        IF u = Anonymous THEN LoginRedirect
        ELSE IF pk \notin DOMAIN projects THEN NotFound
        ELSE IF ~is_member(projects[pk], u)
            THEN Redirect("projects:list", "error", "You don't have access to this project.")
        ELSE Render("projects/comparison_table.html")
    /\ UNCHANGED <<dbVars, session, nextId, mem>>

\* comparison_table: who is let in and whether there is data to compare
comparison_table(u, pk) ==
    /\ response' =
        IF u = Anonymous THEN LoginRedirect
        ELSE IF pk \notin DOMAIN projects THEN NotFound
        ELSE IF ~is_member(projects[pk], u)
            THEN Redirect("projects:list", "error", "You don't have access to this project.")
        ELSE IF VisitsOf(pk) = {}
            THEN Redirect("projects:visit_list", "info", "No visits to compare yet.")
        ELSE IF CriteriaOf(pk) = {}
            THEN Redirect("projects:criteria_list", "info", "No criteria defined yet.")
        ELSE Render("projects/comparison_table.html")
    /\ UNCHANGED <<dbVars, session, nextId, mem>>

\* format_assessment_value(value, criteria_type)
format_assessment_value(value, type) ==
    IF value.k = "None" THEN "-"
    ELSE IF type = "boolean" THEN (IF py_bool(value) THEN "Yes" ELSE "No")
    ELSE IF type = "rating" THEN py_str(value) \o "/5"
    ELSE IF type = "numeric" THEN
        IF py_float(value).raised # "" THEN py_str(value)
        ELSE LET c == py_float(value).val.v
             IN  IF c % 100 = 0 THEN IntToStr(TruncHundredths(c))
                 ELSE (IF c < 0 THEN "-" ELSE "")
                      \o NatToStr(TruncHundredths(IF c < 0 THEN 0 - c ELSE c))
                      \o "." \o FractionStr(c)
    ELSE py_str(value)

\* project.criteria.all().order_by('order'): the ids in a sequence (rows of
\* equal order by id)
RECURSIVE CriteriaInOrder(_)
CriteriaInOrder(cs) ==
    IF cs = {} THEN << >>
    ELSE LET c == CHOOSE x \in cs : \A y \in cs :
                    \/ criteria[x].order < criteria[y].order
                    \/ criteria[x].order = criteria[y].order /\ x <= y
         IN  <<c>> \o CriteriaInOrder(cs \ {c})

\* project.visits.order_by('-visit_date'): the ids in a sequence (visits of
\* one day by id)
RECURSIVE VisitsInOrder(_)
VisitsInOrder(vs) ==
    IF vs = {} THEN << >>
    ELSE LET v == CHOOSE x \in vs : \A y \in vs :
                    \/ visits[x].visit_date > visits[y].visit_date
                    \/ visits[x].visit_date = visits[y].visit_date /\ x <= y
         IN  <<v>> \o VisitsInOrder(vs \ {v})

\* the row export_csv writes for a visit: five visit fields (address and
\* notes are not modelled and stand empty), then one cell per criteria
CsvRow(v, cols) ==
    <<visits[v].name, "", IsoFormat(visits[v].visit_date),
      IF visits[v].realtor # NoRealtor THEN "Realtor " \o NatToStr(visits[v].realtor) ELSE "",
      "">>
    \o [i \in DOMAIN cols |->
            LET found == {a \in assessments : a.visit = v /\ a.criteria = cols[i]}
            IN  format_assessment_value(
                    IF found = {} THEN PyNone
                    ELSE get_value(SlotsOf(CHOOSE a \in found : TRUE), criteria[cols[i]].type),
                    criteria[cols[i]].type)]

\* export_csv with a header of the five visit columns only
CsvRowsShortHeader(pk) ==
    LET cols == CriteriaInOrder(CriteriaOf(pk))
        vs == VisitsInOrder(VisitsOf(pk))
    IN  <<<<"Visit Name", "Address", "Visit Date", "Realtor", "Notes">>>>
        \o [r \in DOMAIN vs |-> CsvRow(vs[r], cols)]

\* the rows of the file: the header, then one row per visit
CsvRows(pk) ==
    LET cols == CriteriaInOrder(CriteriaOf(pk))
        vs == VisitsInOrder(VisitsOf(pk))
    IN  <<<<"Visit Name", "Address", "Visit Date", "Realtor", "Notes">>
            \o [i \in DOMAIN cols |-> criteria[cols[i]].name]>>
        \o [r \in DOMAIN vs |-> CsvRow(vs[r], cols)]

\* export_csv: who is let in; a member gets the file, body holding its rows
export_csv(u, pk) ==
    /\ response' =
        IF u = Anonymous THEN LoginRedirect
        ELSE IF pk \notin DOMAIN projects THEN NotFound
        ELSE IF ~is_member(projects[pk], u)
            THEN Redirect("projects:list", "error", "You don't have access to this project.")
        ELSE [code |-> 200, to |-> "text/csv", level |-> "", msg |-> "", body |-> CsvRows(pk)]
    /\ UNCHANGED <<dbVars, session, nextId, mem>>

----------------------------------------------------------------------------
(* The project/membership specification                                    *)

\* the in-memory assessment is not part of the web specifications
IdleMem == [type |-> "text", a |-> NewAssessment, row |-> NewAssessment,
            op |-> "", arg |-> PyNone, ret |-> PyNone, raised |-> ""]

Init ==
    /\ projects = <<>>
    /\ invitations = <<>>
    /\ criteria = <<>>
    /\ visits = <<>>
    /\ assessments = {}
    /\ photos = {}
    /\ session = [u \in Users |-> EmptySession]
    /\ nextId = [project |-> 1, invitation |-> 1, criteria |-> 1, visit |-> 1, photo |-> 1]
    /\ response = NoResponse
    /\ mem = IdleMem

\* primary keys a request may name: the rows that can exist
RequestProjectIds == ProjectIds \cup {UnknownProjectId}
RequestInvitationIds == InvitationIds
RequestUserIds == Users \cup {UnknownUserId}

Next ==
    \/ \E u \in Requesters, m \in Methods, raw \in RawProjectNames : project_create(u, m, raw)
    \/ \E u \in Requesters, pk \in RequestProjectIds : project_detail(u, pk)
    \/ \E u \in Requesters, pk \in RequestProjectIds, m \in Methods, raw \in RawProjectNames :
            project_edit(u, pk, m, raw)
    \/ \E u \in Requesters, pk \in RequestProjectIds, m \in Methods :
            project_finish(u, pk, m)
    \/ \E u \in Requesters, pk \in RequestProjectIds, m \in Methods, raw \in RawEmails :
            send_invitation(u, pk, m, raw)
    \/ \E u \in Requesters, token \in RequestInvitationIds :
            accept_invitation(u, token)
    \/ \E u \in Requesters, pk \in RequestProjectIds, user_id \in RequestUserIds, m \in Methods :
            remove_collaborator(u, pk, user_id, m)
    \/ \E u \in Requesters, pk \in RequestProjectIds, i \in RequestInvitationIds, m \in Methods :
            cancel_invitation(u, pk, i, m)

Spec == Init /\ [][Next]_vars

----------------------------------------------------------------------------
(* The criteria/assessment specification: one project that alice owns and *)
(* bob has joined (the state after project_create, send_invitation and     *)
(* accept_invitation); bob maintains one criterion and the visits.         *)

InitContent ==
    /\ projects = (1 :> [NewProject("Home", "alice") EXCEPT !.collaborators = {"bob"}])
    /\ invitations = (1 :> [NewInvitation(1, "bob@x.io", "alice")
                                EXCEPT !.accepted = TRUE, !.accepted_at = 1])
    /\ criteria = <<>>
    /\ visits = <<>>
    /\ assessments = {}
    /\ photos = {}
    /\ session = [u \in Users |-> EmptySession]
    /\ nextId = [project |-> 2, invitation |-> 2, criteria |-> 1, visit |-> 1, photo |-> 1]
    /\ response = NoResponse
    /\ mem = IdleMem

RequestCriteriaIds == CriteriaIds
RequestVisitIds == VisitIds
Steps == {"1", "2", "3", "4"}
AnyRawVisit == [name |-> "Loft", visit_date |-> "2024-01-03", realtor_choice |-> "1"]

NextContent ==
    \/ \E raw \in RawCriteriaNames, type \in RawTypes :
            criteria_create("bob", 1, "POST", raw, type, 0)
    \/ \E c \in RequestCriteriaIds, type \in RawTypes :
            criteria_edit("bob", 1, c, "POST", "Price", type, 1)
    \/ \E c \in RequestCriteriaIds : criteria_delete("bob", 1, c, "POST")
    \/ \E step \in Steps : visit_create("bob", 1, "GET", step, AnyRawVisit, NoPost, NoFiles)
    \/ visit_create("bob", 1, "POST", "1", AnyRawVisit, NoPost, NoFiles)
    \/ \E post \in AssessmentPosts(1) :
            visit_create("bob", 1, "POST", "2", AnyRawVisit, post, NoFiles)
    \/ \E v \in RequestVisitIds : \E post \in AssessmentPosts(1) :
            visit_edit("bob", 1, v, "POST", AnyRawVisit, post)
    \/ \E v \in RequestVisitIds : visit_delete("bob", 1, v, "POST")

SpecContent == InitContent /\ [][NextContent]_vars

----------------------------------------------------------------------------
(* Every view of the application on an initially empty database, each with *)
(* one well-formed submission.                                             *)

OnePost(pk) == [CriteriaOf(pk) -> {"3"}]
OneUpload == (0 :> "too_large" @@ 1 :> "image")
ContentRequesters == {"alice", "carol", Anonymous}

NextAll ==
    \/ project_create("alice", "POST", "Home")
    \/ \E u \in ContentRequesters, pk \in ProjectIds : project_detail(u, pk)
    \/ \E u \in Requesters, pk \in ProjectIds : project_edit(u, pk, "POST", " Flat ")
    \/ \E u \in Requesters, pk \in ProjectIds, m \in Methods : project_finish(u, pk, m)
    \/ \E u \in Requesters, pk \in ProjectIds : send_invitation(u, pk, "POST", "bob@x.io")
    \/ \E u \in Requesters, token \in RequestInvitationIds : accept_invitation(u, token)
    \/ \E u \in Requesters, pk \in ProjectIds : remove_collaborator(u, pk, "bob", "POST")
    \/ \E u \in Requesters, pk \in ProjectIds, i \in RequestInvitationIds :
            cancel_invitation(u, pk, i, "POST")
    \/ \E u \in ContentRequesters, pk \in ProjectIds : criteria_list(u, pk)
    \/ \E u \in ContentRequesters, pk \in ProjectIds :
            criteria_create(u, pk, "POST", "Price", "numeric", 0)
    \/ \E u \in ContentRequesters, pk \in ProjectIds, c \in RequestCriteriaIds :
            criteria_edit(u, pk, c, "POST", " Notes ", "rating", 0)
    \/ \E u \in ContentRequesters, pk \in ProjectIds, c \in RequestCriteriaIds, m \in Methods :
            criteria_delete(u, pk, c, m)
    \/ \E u \in ContentRequesters, pk \in ProjectIds :
            add_default_criteria(u, pk, "POST", "basic_housing")
    \/ \E u \in ContentRequesters, pk \in ProjectIds : visit_list(u, pk)
    \/ \E u \in ContentRequesters, pk \in ProjectIds, step \in Steps :
            visit_create(u, pk, "GET", step, AnyRawVisit, NoPost, NoFiles)
    \/ \E u \in ContentRequesters, pk \in ProjectIds :
            visit_create(u, pk, "POST", "1", AnyRawVisit, NoPost, NoFiles)
    \/ \E u \in ContentRequesters, pk \in ProjectIds : \E post \in OnePost(pk) :
            visit_create(u, pk, "POST", "2", AnyRawVisit, post, NoFiles)
    \/ \E u \in ContentRequesters, pk \in ProjectIds :
            visit_create(u, pk, "POST", "3", AnyRawVisit, NoPost, OneUpload)
    \/ \E u \in ContentRequesters, pk \in ProjectIds, v \in RequestVisitIds :
            visit_detail(u, pk, v)
    \/ \E u \in ContentRequesters, pk \in ProjectIds, v \in RequestVisitIds :
        \E post \in OnePost(pk) : visit_edit(u, pk, v, "POST", AnyRawVisit, post)
    \/ \E u \in ContentRequesters, pk \in ProjectIds, v \in RequestVisitIds, m \in Methods :
            visit_delete(u, pk, v, m)
    \/ \E u \in ContentRequesters, pk \in ProjectIds : comparison_table(u, pk)
    \/ \E u \in ContentRequesters, pk \in ProjectIds : export_csv(u, pk)

SpecAll == Init /\ [][NextAll]_vars

----------------------------------------------------------------------------
(* The VisitAssessment model API on one assessment object and its row.     *)
(* mem.a is the Python object, mem.row the database row, mem.type the      *)
(* type of the criteria the assessment belongs to; mem.op, mem.arg,        *)
(* mem.ret and mem.raised record the last call.                            *)

\* slots an assessment can hold when it is created with explicit values
CreatedAssessments ==
    [value_text : {PyStr(""), PyStr("old")},
     value_numeric : {PyNone, PyDecimal(150)},
     value_boolean : {PyNone, PyBool(TRUE)},
     value_rating : {PyNone, PyInt(2)}]

\* arguments of set_value
ValueArgs ==
    {PyNone, PyBool(TRUE), PyBool(FALSE), PyInt(0), PyInt(1), PyInt(5), PyInt(7),
     PyFloat(250), PyDecimal(125), PyStr(""), PyStr("4"), PyStr("abc")}

InitValue ==
    /\ projects = <<>>
    /\ invitations = <<>>
    /\ criteria = <<>>
    /\ visits = <<>>
    /\ assessments = {}
    /\ photos = {}
    /\ session = [u \in Users |-> EmptySession]
    /\ nextId = [project |-> 1, invitation |-> 1, criteria |-> 1, visit |-> 1, photo |-> 1]
    /\ response = NoResponse
    /\ \E t \in TYPE_CHOICES, a \in CreatedAssessments :
            mem = [IdleMem EXCEPT !.type = t, !.a = a, !.row = SaveRow(a)]

webVars == <<projects, invitations, criteria, visits, assessments, photos,
             session, nextId, response>>

\* assessment.set_value(v)
ApiSetValue(v) ==
    /\ mem' = [mem EXCEPT !.a = set_value(mem.a, mem.type, v).val,
                          !.op = "set_value", !.arg = v, !.ret = PyNone,
                          !.raised = set_value(mem.a, mem.type, v).raised]
    /\ UNCHANGED webVars

\* assessment.get_value()
ApiGetValue ==
    /\ mem' = [mem EXCEPT !.op = "get_value", !.ret = get_value(mem.a, mem.type),
                          !.raised = ""]
    /\ UNCHANGED webVars

\* assessment.save()
ApiSave ==
    /\ mem' = [mem EXCEPT !.op = "save", !.row = SaveRow(mem.a), !.ret = PyNone,
                          !.raised = ""]
    /\ UNCHANGED webVars

\* criteria.type = t; criteria.save()
ApiSetType(t) ==
    /\ mem' = [mem EXCEPT !.op = "set_type", !.type = t, !.ret = PyNone, !.raised = ""]
    /\ UNCHANGED webVars

NextValue ==
    \/ \E v \in ValueArgs : ApiSetValue(v)
    \/ ApiGetValue
    \/ ApiSave
    \/ \E t \in TYPE_CHOICES : ApiSetType(t)

SpecValue == InitValue /\ [][NextValue]_vars

----------------------------------------------------------------------------
(* Properties                                                              *)

\* C1: project status is one-way and terminal: a project that appears is
\* active, and no step takes a finished project back to active (or removes it).
StatusOneWay ==
    [][/\ \A pk \in DOMAIN projects' \ DOMAIN projects : projects'[pk].status = "active"
       /\ \A pk \in DOMAIN projects :
            projects[pk].status = "finished"
                => pk \in DOMAIN projects' /\ projects'[pk].status = "finished"]_vars

\* a finished project on which a later finish request has been answered
StatusOneWayWitness ==
    \E pk \in DOMAIN projects :
        /\ projects[pk].status = "finished"
        /\ response = Redirect("projects:detail", "warning", "Project is already finished.")

\* C2: in every state, finished_at is set exactly for the finished projects
FinishedAtIffFinished ==
    \A pk \in DOMAIN projects :
        (projects[pk].finished_at # NoTime) <=> (projects[pk].status = "finished")

FinishedAtIffFinishedWitness ==
    \E pk \in DOMAIN projects :
        projects[pk].status = "finished" /\ projects[pk].finished_at \in Times

\* the slots of an assessment that do not match the type are cleared
OtherSlotsCleared(a, type) ==
    /\ type # "text" => a.value_text = PyStr("")
    /\ type # "numeric" => a.value_numeric = PyNone
    /\ type # "boolean" => a.value_boolean = PyNone
    /\ type # "rating" => a.value_rating = PyNone

\* C4: straight after set_value(v), whatever the slots held before and whatever
\* the criteria type, the three slots that do not match the type are cleared
SetValueClearsOthers ==
    mem.op = "set_value" => OtherSlotsCleared(mem.a, mem.type)

\* set_value stored 2.50 on a numeric assessment whose row still holds the
\* text, boolean and rating it was created with
SetValueClearsOthersWitness ==
    /\ mem.op = "set_value"
    /\ mem.type = "numeric"
    /\ mem.a.value_numeric = PyFloat(250)
    /\ mem.row.value_text = PyStr("old")
    /\ mem.row.value_boolean = PyBool(TRUE)
    /\ mem.row.value_rating = PyInt(2)

\* the values that are valid for a criteria type
ValidFor(type, v) ==
    IF type = "boolean" THEN v.k = "bool"
    ELSE IF type = "numeric" THEN v.k \in {"int", "float", "Decimal"}
    ELSE IF type = "rating" THEN v.k = "int" /\ v.v >= RatingMin /\ v.v <= RatingMax
    ELSE v.k = "str"

\* the value of a number in hundredths
Hundredths(v) == IF v.k = "int" THEN 100 * v.v ELSE v.v

\* ret is v, a numeric v as the float of the same value
RoundTrips(type, v, ret) ==
    IF type = "numeric" THEN ret.k = "float" /\ ret.v = Hundredths(v)
    ELSE ret = v

\* C5: for every type t and value v valid for t, get_value() called straight
\* after set_value(v), the type unchanged in between, returns v (a numeric v
\* as a float)
GetAfterSetRoundTrips ==
    [][(/\ mem.op = "set_value"
        /\ ValidFor(mem.type, mem.arg)
        /\ mem'.op = "get_value")
            => RoundTrips(mem.type, mem.arg, mem'.ret)]_vars

\* get_value() has returned 1.25 after set_value(Decimal("1.25"))
GetAfterSetRoundTripsWitness ==
    /\ mem.op = "get_value"
    /\ mem.type = "numeric"
    /\ mem.arg = PyDecimal(125)
    /\ mem.ret = PyFloat(125)

\* C6: in every state, the rating slot of the assessment and of its stored
\* row is empty or an integer in 1..5, whatever set_value was given
RatingInRange ==
    \A x \in {mem.a.value_rating, mem.row.value_rating} :
        x = PyNone \/ (x.k = "int" /\ x.v >= RatingMin /\ x.v <= RatingMax)

\* C3: in every state, every stored assessment has every slot cleared other
\* than the one matching the current type of its criteria, also after
\* criteria_edit changed the type of a criterion that has assessments
StoredOtherSlotsCleared ==
    \A a \in assessments :
        a.criteria \in DOMAIN criteria
            => OtherSlotsCleared(SlotsOf(a), criteria[a.criteria].type)

\* the project's own fields, members and invitation rows
MembershipOf(ps, is, pk) ==
    [project |-> ps[pk], invitations |-> {<<i, is[i]>> : i \in {j \in DOMAIN is : is[j].project = pk}}]

\* a request of user u to one of the owner-only views of project pk
OwnerOnlyRequest(u, pk) ==
    \/ \E m \in Methods, raw \in RawProjectNames : project_edit(u, pk, m, raw)
    \/ \E m \in Methods : project_finish(u, pk, m)
    \/ \E m \in Methods, raw \in RawEmails : send_invitation(u, pk, m, raw)
    \/ \E m \in Methods, user_id \in RequestUserIds : remove_collaborator(u, pk, user_id, m)
    \/ \E m \in Methods, i \in RequestInvitationIds : cancel_invitation(u, pk, i, m)

\* the same with a method the view allows and with the user or invitation it
\* addresses in the database
RoutedOwnerOnlyRequest(u, pk) ==
    \/ \E m \in Methods, raw \in RawProjectNames : project_edit(u, pk, m, raw)
    \/ project_finish(u, pk, "POST")
    \/ \E raw \in RawEmails : send_invitation(u, pk, "POST", raw)
    \/ \E user_id \in Users : remove_collaborator(u, pk, user_id, "POST")
    \/ \E i \in DOMAIN invitations :
            invitations[i].project = pk /\ cancel_invitation(u, pk, i, "POST")

\* C7: a request to an owner-only view by a signed-in user who is not the
\* owner leaves the project's name, status, finished_at, collaborators and
\* invitations unchanged; it ends in a redirect when the method is one the
\* view allows and the user or invitation it addresses exists.  (Stated by
\* contraposition: a step that changes them, or does not end in a redirect,
\* is not such a request.)
NonOwnerRefused ==
    [][\A u \in Users, pk \in DOMAIN projects :
        u # projects[pk].owner =>
            /\ (MembershipOf(projects', invitations', pk) # MembershipOf(projects, invitations, pk)
                    => ~OwnerOnlyRequest(u, pk))
            /\ (response'.code # 302 => ~RoutedOwnerOnlyRequest(u, pk))]_vars

\* a collaborator's finish request has been refused
NonOwnerRefusedWitness ==
    /\ \E pk \in DOMAIN projects : projects[pk].collaborators # {}
    /\ response = Redirect("projects:detail", "error",
                           "Only the project owner can finish projects.")

\* C7 as stated: every such request leaves the project unchanged and ends in
\* a redirect
NonOwnerAlwaysRedirected ==
    [][\A u \in Users, pk \in DOMAIN projects :
        u # projects[pk].owner =>
            ((\/ MembershipOf(projects', invitations', pk) # MembershipOf(projects, invitations, pk)
              \/ response'.code # 302)
                => ~OwnerOnlyRequest(u, pk))]_vars

\* C9: no step changes the collaborators or the invitation rows of a
\* finished project
FinishedMembershipFrozen ==
    [][\A pk \in DOMAIN projects :
        projects[pk].status = "finished" =>
            /\ projects'[pk].collaborators = projects[pk].collaborators
            /\ MembershipOf(projects', invitations', pk).invitations
                    = MembershipOf(projects, invitations, pk).invitations]_vars

\* the name of a project with its criteria, visits, assessments and photos
ContentOf(ps, cs, vs, as, phs, pk) ==
    [name |-> ps[pk].name,
     criteria |-> {<<c, cs[c]>> : c \in {x \in DOMAIN cs : cs[x].project = pk}},
     visits |-> {<<v, vs[v]>> : v \in {x \in DOMAIN vs : vs[x].project = pk}},
     assessments |-> {a \in as : a.visit \in DOMAIN vs /\ vs[a.visit].project = pk},
     photos |-> {ph \in phs : ph.visit \in DOMAIN vs /\ vs[ph.visit].project = pk}]

\* C8: no step changes the name, the criteria, the visits, the assessments or
\* the photos of a finished project
FinishedContentFrozen ==
    [][\A pk \in DOMAIN projects :
        projects[pk].status = "finished" =>
            ContentOf(projects', criteria', visits', assessments', photos', pk)
                = ContentOf(projects, criteria, visits, assessments, photos, pk)]_vars

\* a finished project that has a criterion, a visit with an assessment and a
\* photo, after a request to delete one of its criteria was refused
FinishedContentFrozenWitness ==
    \E pk \in DOMAIN projects :
        /\ projects[pk].status = "finished"
        /\ ContentOf(projects, criteria, visits, assessments, photos, pk).criteria # {}
        /\ ContentOf(projects, criteria, visits, assessments, photos, pk).assessments # {}
        /\ ContentOf(projects, criteria, visits, assessments, photos, pk).photos # {}
        /\ response = Redirect("projects:criteria_list", "error",
                               "Cannot delete criteria from finished projects.")

----------------------------------------------------------------------------
(* Access to the project-scoped views: bob, a collaborator, fills the      *)
(* project of InitContent and alice finishes it; carol, who is not a       *)
(* member, requests every view.                                            *)

\* a well-formed and a malformed visit form
SomeRawVisits == {AnyRawVisit, [name |-> "x", visit_date |-> "soon", realtor_choice |-> "8"]}

\* a request of user u to a project-scoped view of project pk, addressing the
\* criteria cids and the visits vids, the POST-only views with a method of
\* deleteMethods
ContentRequest(u, pk, cids, vids, deleteMethods) ==
    \/ project_detail(u, pk)
    \/ criteria_list(u, pk)
    \/ \E m \in Methods, raw \in RawCriteriaNames, type \in RawTypes, order \in RawOrders :
            criteria_create(u, pk, m, raw, type, order)
    \/ \E c \in cids, m \in Methods, raw \in RawCriteriaNames, type \in RawTypes,
          order \in RawOrders : criteria_edit(u, pk, c, m, raw, type, order)
    \/ \E c \in cids, m \in deleteMethods : criteria_delete(u, pk, c, m)
    \/ \E m \in Methods, t \in RawTemplates : add_default_criteria(u, pk, m, t)
    \/ visit_list(u, pk)
    \/ \E m \in Methods, step \in Steps, raw \in SomeRawVisits, files \in {NoFiles, OneUpload} :
        \E post \in OnePost(pk) : visit_create(u, pk, m, step, raw, post, files)
    \/ \E v \in vids : visit_detail(u, pk, v)
    \/ \E v \in vids, m \in Methods, raw \in SomeRawVisits :
        \E post \in OnePost(pk) : visit_edit(u, pk, v, m, raw, post)
    \/ \E v \in vids, m \in deleteMethods : visit_delete(u, pk, v, m)
    \/ comparison_table(u, pk)
    \/ export_csv(u, pk)

NextAccess ==
    \/ project_finish("alice", 1, "POST")
    \/ \E raw \in {"Price", " Notes "} : criteria_create("bob", 1, "POST", raw, "numeric", 0)
    \/ \E c \in RequestCriteriaIds : criteria_delete("bob", 1, c, "POST")
    \/ \E v \in RequestVisitIds : visit_delete("bob", 1, v, "POST")
    \/ visit_create("bob", 1, "POST", "1", AnyRawVisit, NoPost, NoFiles)
    \/ \E post \in OnePost(1) : visit_create("bob", 1, "POST", "2", AnyRawVisit, post, NoFiles)
    \/ visit_create("bob", 1, "POST", "3", AnyRawVisit, NoPost, OneUpload)
    \/ ContentRequest("carol", 1, CriteriaOf(1), VisitsOf(1), Methods)

SpecAccess == InitContent /\ [][NextAccess]_vars

\* everything the application stores: the database, the sessions, the counters
stored == <<projects, invitations, criteria, visits, assessments, photos, session, nextId>>

\* C10: a request to a project-scoped view by a signed-in user who is neither
\* the owner nor a collaborator, addressing criteria and visits that exist,
\* changes no stored state; it is answered with a redirect and an error
\* message when its method is one the view allows.  (Stated by
\* contraposition, as C7.)
NonMemberRefused ==
    [][\A u \in Users, pk \in DOMAIN projects :
        (u # projects[pk].owner /\ u \notin projects[pk].collaborators) =>
            /\ (stored' # stored
                    => ~ContentRequest(u, pk, CriteriaOf(pk), VisitsOf(pk), Methods))
            /\ (~(response'.code = 302 /\ response'.level = "error")
                    => ~ContentRequest(u, pk, CriteriaOf(pk), VisitsOf(pk), {"POST"}))]_vars

\* carol has been refused on a project that has criteria, a visit and a photo
NonMemberRefusedWitness ==
    /\ criteria # <<>>
    /\ visits # <<>>
    /\ photos # {}
    /\ session["carol"] = EmptySession
    /\ response = Redirect("projects:list", "error", "You don't have access to this project.")

\* C10 as stated: every such request is answered with a redirect and an error
\* message and changes no stored state
NonMemberAlwaysRedirected ==
    [][\A u \in Users, pk \in DOMAIN projects :
        (u # projects[pk].owner /\ u \notin projects[pk].collaborators) =>
            ((stored' # stored \/ ~(response'.code = 302 /\ response'.level = "error"))
                => ~ContentRequest(u, pk, CriteriaOf(pk), VisitsOf(pk), Methods))]_vars

\* C11: when a signed-in user opens the accept link of a pending invitation
\* whose email is not the user's, the request is rejected with an error
\* message and neither the invitations nor the projects (collaborators
\* included) change.  (By contraposition: a step that changes them, or carries
\* no error message, is no such request.)
MismatchedAcceptRejected ==
    [][\A u \in Users, token \in DOMAIN invitations :
        (~invitations[token].accepted /\ EmailOf[u] # invitations[token].email) =>
            ((\/ invitations' # invitations
              \/ projects' # projects
              \/ ~(response'.level = "error" /\ response'.msg # ""))
                => ~accept_invitation(u, token))]_vars

\* an invitation is still pending after the link was opened under another email
MismatchedAcceptRejectedWitness ==
    /\ \E token \in DOMAIN invitations : ~invitations[token].accepted
    /\ response = Redirect("projects:list", "error", "This invitation is for another email.")

\* C12: accepting takes effect exactly once.  On a pending invitation the
\* model method returns True, marks the row accepted with accepted_at set and
\* adds the user to the collaborators, and so does the view for the invited
\* user; on an accepted invitation the method returns False and changes
\* nothing, and the view reports an invalid link and changes nothing.
AcceptOnce ==
    [][/\ \A i \in DOMAIN invitations, u \in Users, now \in Times :
            LET r == ModelAcceptInvitation(i, u, now)
            IN  IF invitations[i].accepted
                THEN r.result = FALSE /\ r.invitations = invitations /\ r.projects = projects
                ELSE /\ r.result = TRUE
                     /\ r.invitations[i].accepted /\ r.invitations[i].accepted_at = now
                     /\ u \in r.projects[invitations[i].project].collaborators
       /\ \A u \in Users, token \in DOMAIN invitations :
            accept_invitation(u, token) =>
                IF invitations[token].accepted
                THEN /\ invitations' = invitations /\ projects' = projects
                     /\ response' = Redirect("home", "error",
                                             "Invalid or expired invitation link.")
                ELSE EmailOf[u] = invitations[token].email =>
                        /\ invitations'[token].accepted
                        /\ invitations'[token].accepted_at \in Times
                        /\ u \in projects'[invitations[token].project].collaborators]_vars

\* an accepted invitation whose link was opened once more
AcceptOnceWitness ==
    /\ \E token \in DOMAIN invitations :
        /\ invitations[token].accepted
        /\ invitations[token].accepted_at \in Times
        /\ \E u \in projects[invitations[token].project].collaborators :
                EmailOf[u] = invitations[token].email
    /\ response = Redirect("home", "error", "Invalid or expired invitation link.")

\* C13: in every reachable state there is at most one invitation row per
\* (project, email), pending and accepted rows counted alike; and a
\* send_invitation request by the owner of an active project for a pair that
\* already has a row (so that creating another row is attempted or refused)
\* leaves every invitation row as it was.
InvitationPairUnique ==
    /\ [](\A i, j \in DOMAIN invitations :
            (invitations[i].project = invitations[j].project
                /\ invitations[i].email = invitations[j].email) => i = j)
    /\ [][\A pk \in DOMAIN projects, raw \in RawEmails :
            (/\ projects[pk].status = "active"
             /\ InvitationFormValid(raw)
             /\ \E i \in DOMAIN invitations :
                    invitations[i].project = pk /\ invitations[i].email = CleanEmail(raw))
                => (invitations' # invitations
                        => ~send_invitation(projects[pk].owner, pk, "POST", raw))]_vars

\* a second row for the pair of an accepted invitation was attempted, after the
\* collaborator had been removed, and refused by the table
InvitationPairUniqueWitness ==
    /\ response = ServerError("IntegrityError")
    /\ \E i \in DOMAIN invitations :
        /\ invitations[i].accepted
        /\ \A u \in UsersWithEmail(invitations[i].email) :
                u \notin projects[invitations[i].project].collaborators

-----------------------------------------------------------------------------
(* The criteria of one project: members create, rename, delete and add     *)
(* templates (specification SpecCriteria)                                  *)

CriteriaMembers == {"alice", "bob"}
\* the submitted types: two choices of the type field and one that is none
SomeRawTypes == {"numeric", "text", "colour"}

NextCriteria ==
    \/ \E u \in CriteriaMembers, raw \in RawCriteriaNames, type \in SomeRawTypes, order \in RawOrders :
            criteria_create(u, 1, "POST", raw, type, order)
    \/ \E u \in CriteriaMembers, c \in RequestCriteriaIds, raw \in RawCriteriaNames,
          type \in SomeRawTypes, order \in RawOrders :
            criteria_edit(u, 1, c, "POST", raw, type, order)
    \/ \E c \in RequestCriteriaIds : criteria_delete("bob", 1, c, "POST")
    \/ \E u \in CriteriaMembers, template \in RawTemplates :
            add_default_criteria(u, 1, "POST", template)
    \/ criteria_list("bob", 1)

SpecCriteria == InitContent /\ [][NextCriteria]_vars

\* every row of the table before the request is in the table after it, as it was
CriteriaRowsKept ==
    \A c \in DOMAIN criteria : c \in DOMAIN criteria' /\ criteria'[c] = criteria[c]

\* C14: in every reachable state the criterion names are unique within a
\* project; and a criteria_create or criteria_edit request whose name is used
\* by another criterion of the project, and an add_default_criteria request
\* whose template holds such a name, leave every existing criteria row as it
\* was (create and edit leave the whole table as it was).
CriteriaNamesUnique ==
    /\ [](\A c, d \in DOMAIN criteria :
            (criteria[c].project = criteria[d].project /\ criteria[c].name = criteria[d].name)
                => c = d)
    /\ [][\A u \in CriteriaMembers :
            /\ \A raw \in RawCriteriaNames, type \in SomeRawTypes, order \in RawOrders :
                /\ (/\ CriteriaFormValid(raw, type)
                    /\ \E c \in DOMAIN criteria :
                        criteria[c].project = 1 /\ criteria[c].name = StripCriteriaName(raw))
                    => (criteria' # criteria => ~criteria_create(u, 1, "POST", raw, type, order))
                /\ \A e \in DOMAIN criteria :
                    (/\ CriteriaFormValid(raw, type)
                     /\ \E c \in DOMAIN criteria \ {e} :
                        criteria[c].project = 1 /\ criteria[c].name = StripCriteriaName(raw))
                    => (criteria' # criteria => ~criteria_edit(u, 1, e, "POST", raw, type, order))
            /\ \A template \in TEMPLATE_CHOICES :
                (\E c \in DOMAIN criteria, i \in DOMAIN TemplateCriteria(template) :
                    criteria[c].project = 1 /\ criteria[c].name = TemplateCriteria(template)[i].name)
                    => (~CriteriaRowsKept => ~add_default_criteria(u, 1, "POST", template))]_vars

\* a request collided with the name of one of two criteria and was refused
CriteriaNamesUniqueWitness ==
    /\ Cardinality(DOMAIN criteria) = 2
    /\ response = RenderWith("projects/criteria_form.html", "error",
                             "A criteria with this name already exists in this project.")

\* C15: every send_invitation request by the owner of an active project with
\* a valid email ends in a redirect to the project page with a message, also
\* when an accepted invitation row for the (project, email) pair exists.
DuplicateInvitationReported ==
    [][\A pk \in DOMAIN projects, raw \in RawEmails :
        (projects[pk].status = "active" /\ InvitationFormValid(raw)) =>
            (~(/\ response'.code = 302
               /\ response'.to = "projects:detail"
               /\ response'.msg # "")
                => ~send_invitation(projects[pk].owner, pk, "POST", raw))]_vars

-----------------------------------------------------------------------------
(* The three steps of visit_create as one member, bob, goes through them   *)
(* in two browser tabs that share bob's session (specification SpecFlow).  *)
(* The second tab submits its step 1 (TabB) once the first tab's step 1    *)
(* (TabA) is in the session.                                               *)

TabA == AnyRawVisit
TabB == [name |-> "Attic", visit_date |-> "2024-01-05", realtor_choice |-> "1"]
NoRealtorVisit == [name |-> "Shed", visit_date |-> "2024-01-03", realtor_choice |-> ""]
MalformedVisit == [name |-> "x", visit_date |-> "soon", realtor_choice |-> "8"]

NextFlow ==
    \/ \E type \in {"numeric", "rating"} : criteria_create("alice", 1, "POST", "Price", type, 0)
    \/ \E step \in Steps : visit_create("bob", 1, "GET", step, AnyRawVisit, NoPost, NoFiles)
    \/ \E raw \in {TabA, NoRealtorVisit, MalformedVisit} :
            visit_create("bob", 1, "POST", "1", raw, NoPost, NoFiles)
    \/ /\ session["bob"].visit_data = SessionVisitData(TabA)
       /\ visit_create("bob", 1, "POST", "1", TabB, NoPost, NoFiles)
    \/ \E post \in AssessmentPosts(1) :
            visit_create("bob", 1, "POST", "2", AnyRawVisit, post, NoFiles)
    \/ \E files \in Uploads : visit_create("bob", 1, "POST", "3", AnyRawVisit, NoPost, files)

SpecFlow == InitContent /\ [][NextFlow]_vars

\* an error message with a redirect to visit_create without a step, that is
\* to step 1, and no Visit, VisitAssessment or VisitPhoto row created
BackToStepOne ==
    /\ response'.code = 302
    /\ response'.to = "projects:visit_create"
    /\ response'.level = "error"
    /\ response'.msg # ""
    /\ visits' = visits
    /\ assessments' = assessments
    /\ photos' = photos

\* C17: for a member of an active project that has criteria (a request that
\* gets past the checks visit_create starts with), a step-2 request, GET or
\* POST with a valid assessment form, made while the session holds no
\* visit_data, and a step-3 request, GET or POST, made while the session holds
\* no visit_id, each end in an error message and a redirect to step 1 and
\* create no Visit, VisitAssessment or VisitPhoto.
MissingSessionBackToStepOne ==
    [][VisitCreateGate("bob", 1) = NoResponse =>
        /\ session["bob"].visit_data = NoVisitData =>
            (~BackToStepOne =>
                /\ ~visit_create("bob", 1, "GET", "2", AnyRawVisit, NoPost, NoFiles)
                /\ \A post \in AssessmentPosts(1) :
                    AssessmentFormValid(1, post) =>
                        ~visit_create("bob", 1, "POST", "2", AnyRawVisit, post, NoFiles))
        /\ session["bob"].visit_id = NoVisitId =>
            (~BackToStepOne =>
                /\ ~visit_create("bob", 1, "GET", "3", AnyRawVisit, NoPost, NoFiles)
                /\ \A files \in Uploads :
                    ~visit_create("bob", 1, "POST", "3", AnyRawVisit, NoPost, files))]_vars

\* step 2 was opened with nothing in the session and no visit in the table
MissingSessionBackToStepOneWitness ==
    /\ session["bob"] = EmptySession
    /\ CriteriaOf(1) # {}
    /\ visits = <<>>
    /\ response = Redirect("projects:visit_create", "error", "Please complete step 1 first.")

\* the visits table after the request is the table before plus one visit of
\* the project that carries the fields of the step-1 submission raw
OneVisitCreatedFrom(raw) ==
    \E v \in DOMAIN visits' \ DOMAIN visits :
        /\ DOMAIN visits' = DOMAIN visits \cup {v}
        /\ \A w \in DOMAIN visits : visits'[w] = visits[w]
        /\ visits'[v] = [project |-> 1, name |-> raw.name,
                         visit_date |-> FromIsoFormat(raw.visit_date),
                         realtor |-> ChosenRealtor(raw), created_by |-> "bob"]

\* C18: two tabs that share one session.  A valid step-1 submission B made
\* while the session holds the data of an earlier valid step-1 submission A
\* replaces them and creates no visit; the next step-2 submission with a valid
\* assessment form then creates exactly one visit, which carries the fields of
\* B, and removes visit_data from the session; and a step-2 submission made
\* while the session holds no visit_data, as the other tab's is afterwards,
\* creates no visit.
LastStepOneWins ==
    [][VisitCreateGate("bob", 1) = NoResponse =>
        /\ session["bob"].visit_data = SessionVisitData(TabA) =>
            (visit_create("bob", 1, "POST", "1", TabB, NoPost, NoFiles) =>
                /\ session'["bob"].visit_data = SessionVisitData(TabB)
                /\ visits' = visits)
        /\ \A post \in AssessmentPosts(1) :
            AssessmentFormValid(1, post) =>
                (visit_create("bob", 1, "POST", "2", AnyRawVisit, post, NoFiles) =>
                    /\ session["bob"].visit_data = SessionVisitData(TabB) =>
                        /\ OneVisitCreatedFrom(TabB)
                        /\ session'["bob"].visit_data = NoVisitData
                    /\ session["bob"].visit_data = NoVisitData =>
                        /\ visits' = visits
                        /\ session'["bob"].visit_data = NoVisitData)]_vars

\* after A then B, one visit with B's fields was created by a step 2, and the
\* other tab's step 2 then found no visit_data
LastStepOneWinsWitness ==
    /\ \E v \in DOMAIN visits :
        /\ DOMAIN visits = {v}
        /\ visits[v].name = TabB.name
        /\ session["bob"].visit_id = v
    /\ session["bob"].visit_data = NoVisitData
    /\ response = Redirect("projects:visit_create", "error", "Session expired. Please start over.")

-----------------------------------------------------------------------------
(* The comparison view of one project while its members add and delete     *)
(* criteria and visits (specification SpecCompare)                         *)

NextCompare ==
    \/ \E raw \in {"Price", " Notes "}, type \in {"numeric", "text"} :
            criteria_create("bob", 1, "POST", raw, type, 0)
    \/ \E c \in RequestCriteriaIds : criteria_delete("bob", 1, c, "POST")
    \/ visit_create("bob", 1, "POST", "1", AnyRawVisit, NoPost, NoFiles)
    \/ \E post \in AssessmentPosts(1) :
            visit_create("bob", 1, "POST", "2", AnyRawVisit, post, NoFiles)
    \/ \E v \in RequestVisitIds : visit_delete("bob", 1, v, "POST")
    \/ project_finish("alice", 1, "POST")
    \/ \E u \in CriteriaMembers : comparison_table(u, 1)
    \/ \E u \in CriteriaMembers : export_csv(u, 1)

SpecCompare == InitContent /\ [][NextCompare]_vars

\* C19: for a member's request to the comparison view: on a project with no
\* visit the answer is a redirect to the visit list; on a project with visits
\* and no criterion it is a redirect to the criteria page; and the table page
\* is rendered only when the project has at least one visit and at least one
\* criterion.
ComparisonNeedsData ==
    [][\A u \in CriteriaMembers :
        comparison_table(u, 1) =>
            /\ VisitsOf(1) = {} =>
                (response'.code = 302 /\ response'.to = "projects:visit_list")
            /\ (VisitsOf(1) # {} /\ CriteriaOf(1) = {}) =>
                (response'.code = 302 /\ response'.to = "projects:criteria_list")
            /\ response' = Render("projects/comparison_table.html") =>
                (VisitsOf(1) # {} /\ CriteriaOf(1) # {})]_vars

\* the comparison view was asked for a project with a visit and no criterion
ComparisonNeedsDataWitness ==
    /\ VisitsOf(1) # {}
    /\ CriteriaOf(1) = {}
    /\ response = Redirect("projects:criteria_list", "info", "No criteria defined yet.")

-----------------------------------------------------------------------------
(* The highlighting of the comparison table: the statistics comparison_table *)
(* collects for one criterion over the visits of the project, and the       *)
(* filters is_best_value and is_worst_value applied to its cells            *)
(* (specification SpecHighlight, on the variable mem)                       *)

\* bound on the visits of the project, one cell each
MaxCells == 3

\* assessment.get_value() if assessment else None, by criteria type
CellValues(type) ==
    IF type = "numeric"
        THEN {PyNone, PyDecimal(0), PyDecimal(25000000), PyDecimal(30000000)}
    ELSE IF type = "rating" THEN {PyNone, PyInt(3), PyInt(4)}
    ELSE IF type = "boolean" THEN {PyNone, PyBool(TRUE), PyBool(FALSE)}
    ELSE {PyNone, PyStr(""), PyStr("7"), PyStr("abc")}

\* stats['values']: float(value) of the cells whose value is not None, for a
\* numeric or rating criterion, in the order of the visits
RECURSIVE CollectValues(_, _, _)
CollectValues(type, cells, i) ==
    IF i > Len(cells) THEN << >>
    ELSE IF /\ cells[i].k # "None"
            /\ type \in {"numeric", "rating"}
            /\ py_float(cells[i]).raised = ""
        THEN <<py_float(cells[i]).val>> \o CollectValues(type, cells, i + 1)
    ELSE CollectValues(type, cells, i + 1)

\* min(values) and max(values) of a non-empty list of floats
MinFloat(values) ==
    CHOOSE x \in {values[i] : i \in DOMAIN values} : \A i \in DOMAIN values : x.v <= values[i].v
MaxFloat(values) ==
    CHOOSE x \in {values[i] : i \in DOMAIN values} : \A i \in DOMAIN values : x.v >= values[i].v

\* criteria_stats[criterion.id] once the visits are processed
criteria_stats(type, cells) ==
    LET values == CollectValues(type, cells, 1)
    IN  [values |-> values,
         min_val |-> IF values # << >> THEN MinFloat(values) ELSE PyNone,
         max_val |-> IF values # << >> THEN MaxFloat(values) ELSE PyNone,
         type |-> type]

\* the dict get_criterion_stats answers for an unknown criterion
EmptyStats == [values |-> << >>, min_val |-> PyNone, max_val |-> PyNone, type |-> ""]

\* {{ value|is_best_value:stats }}: True, False or the exception of float()
is_best_value(value, stats) ==
    IF value.k # "None" /\ stats # EmptyStats THEN
        IF stats.max_val.k = "None" THEN Ok(PyBool(FALSE))
        ELSE IF py_float(value).raised # "" THEN Raise(py_float(value).raised)
        ELSE Ok(PyBool(py_float(value).val.v = py_float(stats.max_val).val.v))
    ELSE Ok(PyBool(FALSE))

\* is_worst_value without the test min_val != max_val
is_worst_value_with_ties(value, stats) ==
    IF value.k # "None" /\ stats # EmptyStats THEN
        IF stats.min_val.k = "None" \/ stats.max_val.k = "None" THEN Ok(PyBool(FALSE))
        ELSE IF py_float(value).raised # "" THEN Raise(py_float(value).raised)
        ELSE Ok(PyBool(py_float(value).val.v = py_float(stats.min_val).val.v))
    ELSE Ok(PyBool(FALSE))

\* {{ value|is_worst_value:stats }}
is_worst_value(value, stats) ==
    IF value.k # "None" /\ stats # EmptyStats THEN
        IF stats.min_val.k = "None" \/ stats.max_val.k = "None" THEN Ok(PyBool(FALSE))
        ELSE IF stats.min_val = stats.max_val THEN Ok(PyBool(FALSE))
        ELSE IF py_float(value).raised # "" THEN Raise(py_float(value).raised)
        ELSE Ok(PyBool(py_float(value).val.v = py_float(stats.min_val).val.v))
    ELSE Ok(PyBool(FALSE))

\* the column of one criterion: its type and one cell per visit
Columns ==
    UNION {[type : {t}, cells : UNION {[1..n -> CellValues(t)] : n \in 1..MaxCells}] :
            t \in TYPE_CHOICES}

InitHighlight ==
    /\ projects = <<>>
    /\ invitations = <<>>
    /\ criteria = <<>>
    /\ visits = <<>>
    /\ assessments = {}
    /\ photos = {}
    /\ session = [u \in Users |-> EmptySession]
    /\ nextId = [project |-> 1, invitation |-> 1, criteria |-> 1, visit |-> 1, photo |-> 1]
    /\ response = NoResponse
    /\ \E col \in Columns :
            mem = [type |-> col.type, cells |-> col.cells, op |-> "",
                   stats |-> EmptyStats, flags |-> << >>]

\* comparison_table collects the statistics of the column
BuildStats ==
    /\ mem.op = ""
    /\ mem' = [mem EXCEPT !.op = "stats", !.stats = criteria_stats(mem.type, mem.cells)]
    /\ UNCHANGED webVars

\* the two filters applied to the next cell of the column
FlagCell ==
    /\ mem.op = "stats"
    /\ Len(mem.flags) < Len(mem.cells)
    /\ mem' = [mem EXCEPT !.flags = Append(@,
                    [best |-> is_best_value(mem.cells[Len(mem.flags) + 1], mem.stats),
                     worst |-> is_worst_value(mem.cells[Len(mem.flags) + 1], mem.stats)])]
    /\ UNCHANGED webVars

NextHighlight ==
    \/ BuildStats
    \/ FlagCell

SpecHighlight == InitHighlight /\ [][NextHighlight]_vars

\* the present values of the column, in hundredths
PresentValues(cells) == {Hundredths(cells[j]) : j \in {k \in DOMAIN cells : cells[k].k # "None"}}

\* C20: for a numeric or rating criterion, a cell with a present value is
\* flagged best exactly when its value is the largest of the present values
\* of the criterion over the visits, and flagged worst exactly when its value
\* is the smallest of them and they are not all equal; for the values
\* [250000, 300000] the first cell is worst and not best and the second best
\* and not worst; and the cells of a criterion for which no numeric value was
\* collected (no present value, or a boolean or text criterion) are flagged
\* neither.
HighlightRule ==
    \A i \in DOMAIN mem.flags :
        LET P == PresentValues(mem.cells)
            numeric == mem.type \in {"numeric", "rating"}
        IN  /\ (numeric /\ mem.cells[i].k # "None") =>
                /\ mem.flags[i].best =
                    Ok(PyBool(\A x \in P : x <= Hundredths(mem.cells[i])))
                /\ mem.flags[i].worst =
                    Ok(PyBool(/\ \A x \in P : x >= Hundredths(mem.cells[i])
                              /\ \E x, y \in P : x # y))
            /\ (mem.type = "numeric"
                    /\ mem.cells = <<PyDecimal(25000000), PyDecimal(30000000)>>) =>
                mem.flags[i] = [best |-> Ok(PyBool(i = 2)), worst |-> Ok(PyBool(i = 1))]
            /\ (~numeric \/ P = {}) =>
                mem.flags[i] = [best |-> Ok(PyBool(FALSE)), worst |-> Ok(PyBool(FALSE))]

\* the column [250000, 300000] with both cells flagged
HighlightRuleWitness ==
    /\ mem.type = "numeric"
    /\ mem.cells = <<PyDecimal(25000000), PyDecimal(30000000)>>
    /\ Len(mem.flags) = 2
    /\ mem.flags[1].worst = Ok(PyBool(TRUE))
    /\ mem.flags[2].best = Ok(PyBool(TRUE))

\* C21: when all the present values of a numeric or rating criterion over the
\* visits are the same (for example [4, 4]), no cell of the criterion is
\* flagged best and no cell is flagged worst.
EqualValuesFlaggedNeither ==
    (/\ mem.type \in {"numeric", "rating"}
     /\ \A x, y \in PresentValues(mem.cells) : x = y)
        => \A i \in DOMAIN mem.flags :
                mem.flags[i] = [best |-> Ok(PyBool(FALSE)), worst |-> Ok(PyBool(FALSE))]

-----------------------------------------------------------------------------
(* The sorting of the comparison table by the column of one criterion      *)
(* (specification SpecSort, on the variable mem)                           *)

\* float('-inf') and float('inf')
NegInf == [k |-> "-inf", v |-> 0]
PosInf == [k |-> "inf", v |-> 0]

\* request.GET['order']; anything but 'desc' sorts ascending
RawSortOrders == {"desc", "asc", "up"}

\* sort_key without the test of sort_order: a missing value is always -inf
sort_key_neg_inf(value, sort_order) ==
    IF value.k = "None" THEN NegInf
    ELSE IF py_float(value).raised = "" THEN py_float(value).val
    ELSE PyStr(IF py_bool(value) THEN py_str(value) ELSE "")

\* sort_key(item) for the value of the item in the sorted column
sort_key(value, sort_order) ==
    IF value.k = "None" THEN (IF sort_order = "desc" THEN NegInf ELSE PosInf)
    ELSE IF py_float(value).raised = "" THEN py_float(value).val
    ELSE PyStr(IF py_bool(value) THEN py_str(value) ELSE "")

\* the strings of the text cells in Python's order of str
TextStrings == <<"", "7", "abc">>
StrRank(s) == CHOOSE i \in DOMAIN TextStrings : TextStrings[i] = s

\* a < b for two keys; Python raises TypeError for a float and a str
KeysComparable(a, b) == (a.k = "str") = (b.k = "str")
KeyLess(a, b) ==
    IF a.k = "str" THEN StrRank(a.v) < StrRank(b.v)
    ELSE IF a.k = "-inf" THEN b.k # "-inf"
    ELSE IF a.k = "inf" THEN FALSE
    ELSE IF b.k = "-inf" THEN FALSE
    ELSE IF b.k = "inf" THEN TRUE
    ELSE a.v < b.v

\* the orders of n items: position -> index of the item before the sort
Orders(n) == {p \in [1..n -> 1..n] : \A i, j \in 1..n : p[i] = p[j] => i = j}

\* list.sort(key=..., reverse=...): the stable order by the keys; when two
\* keys cannot be compared the sort raises TypeError, which comparison_table
\* swallows, and leaves the list in some order
list_sort(keys, reverse) ==
    IF \E i, j \in DOMAIN keys : ~KeysComparable(keys[i], keys[j])
    THEN Orders(Len(keys))
    ELSE {p \in Orders(Len(keys)) :
            \A i, j \in DOMAIN keys :
                i < j =>
                    /\ IF reverse THEN ~KeyLess(keys[p[i]], keys[p[j]])
                                  ELSE ~KeyLess(keys[p[j]], keys[p[i]])
                    /\ keys[p[i]] = keys[p[j]] => p[i] < p[j]}

InitSort ==
    /\ projects = <<>>
    /\ invitations = <<>>
    /\ criteria = <<>>
    /\ visits = <<>>
    /\ assessments = {}
    /\ photos = {}
    /\ session = [u \in Users |-> EmptySession]
    /\ nextId = [project |-> 1, invitation |-> 1, criteria |-> 1, visit |-> 1, photo |-> 1]
    /\ response = NoResponse
    /\ \E col \in Columns, o \in RawSortOrders :
            mem = [type |-> col.type, cells |-> col.cells, sort_order |-> o,
                   op |-> "", order |-> [i \in DOMAIN col.cells |-> i]]

\* comparison_table with ?sort=<criterion>&order=<sort_order>
SortTable ==
    /\ mem.op = ""
    /\ \E p \in list_sort([i \in DOMAIN mem.cells |-> sort_key(mem.cells[i], mem.sort_order)],
                          mem.sort_order = "desc") :
            mem' = [mem EXCEPT !.op = "sorted", !.order = p]
    /\ UNCHANGED webVars

\* comparison_table without a sort parameter: the visits stay as queried
ShowUnsorted ==
    /\ mem.op = ""
    /\ mem' = [mem EXCEPT !.op = "unsorted"]
    /\ UNCHANGED webVars

NextSort ==
    \/ SortTable
    \/ ShowUnsorted

SpecSort == InitSort /\ [][NextSort]_vars

\* in the sorted table every visit without a value comes after every visit
\* with one
MissingLast ==
    \A i, j \in DOMAIN mem.order :
        (mem.cells[mem.order[i]].k = "None" /\ mem.cells[mem.order[j]].k # "None") => j < i

\* C22: sorting by a numeric or rating criterion places every visit without
\* a value for the criterion after all the visits that have one, for
\* descending and for ascending order alike, and orders the visits that have
\* a value by it, largest first when descending and smallest first otherwise.
NumericSort ==
    (mem.op = "sorted" /\ mem.type \in {"numeric", "rating"}) =>
        /\ MissingLast
        /\ \A i, j \in DOMAIN mem.order :
            (/\ i < j
             /\ mem.cells[mem.order[i]].k # "None"
             /\ mem.cells[mem.order[j]].k # "None")
                => IF mem.sort_order = "desc"
                   THEN Hundredths(mem.cells[mem.order[i]]) >= Hundredths(mem.cells[mem.order[j]])
                   ELSE Hundredths(mem.cells[mem.order[i]]) <= Hundredths(mem.cells[mem.order[j]])

\* [missing, 300000, 250000] sorted ascending: 250000, 300000, missing
NumericSortWitness ==
    /\ mem.op = "sorted"
    /\ mem.sort_order = "asc"
    /\ mem.cells = <<PyNone, PyDecimal(30000000), PyDecimal(25000000)>>
    /\ mem.order = <<3, 2, 1>>

\* C25: sorting by a text criterion places every visit without an assessment
\* for the criterion last and orders the other visits lexicographically by the
\* stored string, in the requested direction, also when some of the strings
\* look like numbers.
TextSort ==
    (mem.op = "sorted" /\ mem.type = "text") =>
        /\ MissingLast
        /\ \A i, j \in DOMAIN mem.order :
            (/\ i < j
             /\ mem.cells[mem.order[i]].k # "None"
             /\ mem.cells[mem.order[j]].k # "None")
                => IF mem.sort_order = "desc"
                   THEN StrRank(mem.cells[mem.order[i]].v) >= StrRank(mem.cells[mem.order[j]].v)
                   ELSE StrRank(mem.cells[mem.order[i]].v) <= StrRank(mem.cells[mem.order[j]].v)

\* C23: the file export_csv answers a member with has exactly one header row
\* of 5 + (number of criteria of the project) columns, then exactly one row
\* per visit of the project, each of the same 5 + (number of criteria)
\* columns, a criteria for which the visit has no assessment exported as "-".
CsvShape ==
    (response.code = 200 /\ response.to = "text/csv") =>
        LET n == 5 + Cardinality(CriteriaOf(1))
            cols == CriteriaInOrder(CriteriaOf(1))
            vs == VisitsInOrder(VisitsOf(1))
        IN  /\ Len(response.body) = 1 + Cardinality(VisitsOf(1))
            /\ \A r \in DOMAIN response.body : Len(response.body[r]) = n
            /\ {vs[r] : r \in DOMAIN vs} = VisitsOf(1)
            /\ \A r \in DOMAIN vs : response.body[r + 1][1] = visits[vs[r]].name
            /\ \A r \in DOMAIN vs, i \in DOMAIN cols :
                (\A a \in assessments : ~(a.visit = vs[r] /\ a.criteria = cols[i]))
                    => response.body[r + 1][5 + i] = "-"

\* a file with a row for a visit that has no assessment for one of two criteria
CsvShapeWitness ==
    /\ response.code = 200 /\ response.to = "text/csv"
    /\ Len(response.body) = 2
    /\ Len(response.body[2]) = 7
    /\ \E i \in 6..7 : response.body[2][i] = "-"
    /\ \E i \in 6..7 : response.body[2][i] # "-"

\* C24: in every reachable state there is at most one VisitAssessment per
\* (visit, criteria) pair, however often the assessments of a visit are saved
\* (step 2 of visit_create, then visit_edit any number of times); and a
\* direct creation of a second row for a pair that has one raises
\* IntegrityError and leaves the table as it was.
AssessmentPairUnique ==
    /\ \A a, b \in assessments : (a.visit = b.visit /\ a.criteria = b.criteria) => a = b
    /\ \A a \in assessments :
        AssessmentCreate(assessments, a.visit, a.criteria)
            = [raised |-> "IntegrityError", rows |-> assessments]

\* a visit whose assessments were saved by visit_edit holds a row
AssessmentPairUniqueWitness ==
    /\ response = Redirect("projects:visit_detail", "success", "Visit updated successfully!")
    /\ \E a \in assessments : a.visit \in DOMAIN visits

\* C26: cancel_invitation deletes only pending invitations.  A POST by the
\* owner for a pending invitation of the project removes that row and no
\* other; no cancel_invitation request, whoever sends it, changes the
\* invitations or the collaborators when the invitation it names is accepted,
\* and the owner's POST for an accepted invitation is answered with a warning.
CancelOnlyPending ==
    [][\A i \in DOMAIN invitations :
        LET pk == invitations[i].project
        IN  \A u \in Requesters, m \in Methods :
            (~(IF invitations[i].accepted
               THEN /\ invitations' = invitations
                    /\ projects' = projects
                    /\ (u = projects[pk].owner /\ m = "POST") =>
                            (response'.code = 302 /\ response'.level = "warning")
               ELSE (u = projects[pk].owner /\ m = "POST") =>
                        /\ DOMAIN invitations' = DOMAIN invitations \ {i}
                        /\ \A j \in DOMAIN invitations' : invitations'[j] = invitations[j]
                        /\ projects' = projects))
                => ~cancel_invitation(u, pk, i, m)]_vars

\* the owner tried to cancel an accepted invitation
CancelOnlyPendingWitness ==
    /\ \E i \in DOMAIN invitations :
        /\ invitations[i].accepted
        /\ \E u \in projects[invitations[i].project].collaborators :
                EmailOf[u] = invitations[i].email
    /\ response = Redirect("projects:detail", "warning",
                           "Cannot cancel an already accepted invitation.")

\* C27: in every reachable state every collaborator of a project has an
\* accepted invitation row of that project whose email is the collaborator's
\* email, and the owner of a project is not among its collaborators.
CollaboratorsWereInvited ==
    \A pk \in DOMAIN projects :
        /\ projects[pk].owner \notin projects[pk].collaborators
        /\ \A u \in projects[pk].collaborators :
            \E i \in DOMAIN invitations :
                /\ invitations[i].project = pk
                /\ invitations[i].accepted
                /\ invitations[i].email = EmailOf[u]

\* a project with a collaborator, and a second accept link opened by a user
\* it was not addressed to
CollaboratorsWereInvitedWitness ==
    /\ \E pk \in DOMAIN projects : projects[pk].collaborators # {}
    /\ response = Redirect("projects:list", "error", "This invitation is for another email.")

\* C28: in one session, every visit_create request that creates a visit
\* creates exactly one, finds visit_data in the session, removes it and stores
\* the new visit's id as visit_id; visit_data enters the session only with a
\* valid step-1 submission, which creates no visit (so visits created never
\* outnumber valid step-1 submissions, and a step-2 submission repeated after
\* a successful one creates no visit); and every request that attaches photos
\* finds visit_id in the session and removes it.
FlowCreatesOncePerStepOne ==
    [][LET created == DOMAIN visits' \ DOMAIN visits
       IN  /\ Cardinality(created) <= 1
           /\ created # {} =>
                /\ session["bob"].visit_data # NoVisitData
                /\ session'["bob"].visit_data = NoVisitData
                /\ session'["bob"].visit_id \in created
           /\ session["bob"].visit_data = NoVisitData => created = {}
           /\ (/\ session'["bob"].visit_data # NoVisitData
               /\ session'["bob"].visit_data # session["bob"].visit_data) =>
                /\ response' = Redirect("projects:visit_create?step=2", "", "")
                /\ visits' = visits
           /\ photos' # photos =>
                /\ session["bob"].visit_id \in DOMAIN visits
                /\ session'["bob"].visit_id = NoVisitId]_vars

\* the step-2 submission was repeated after a successful one: the visit
\* exists, its id is still in the session for step 3, and the repeat was
\* answered with the session error
FlowCreatesOncePerStepOneWitness ==
    /\ visits # <<>>
    /\ session["bob"].visit_data = NoVisitData
    /\ session["bob"].visit_id \in DOMAIN visits
    /\ response = Redirect("projects:visit_create", "error",
                           "Session expired. Please start over.")

\* C29: step 2 of visit_create is all-or-nothing.  A step-2 submission that
\* ends with the "Error creating visit" message leaves the visits and the
\* assessments as they were; one that succeeds (is sent on to step 3) adds
\* exactly one visit and, for it, exactly one assessment for every criterion
\* posted with a non-empty value, and leaves all other rows alone.
StepTwoAllOrNothing ==
    [][\A post \in AssessmentPosts(1) :
        visit_create("bob", 1, "POST", "2", AnyRawVisit, post, NoFiles) =>
            /\ response'.msg = "Error creating visit" =>
                /\ visits' = visits
                /\ assessments' = assessments
            /\ response' = Redirect("projects:visit_create?step=3", "", "") =>
                \E v \in DOMAIN visits' \ DOMAIN visits :
                    /\ DOMAIN visits' = DOMAIN visits \cup {v}
                    /\ \A w \in DOMAIN visits : visits'[w] = visits[w]
                    /\ assessments \subseteq assessments'
                    /\ \A a \in assessments' \ assessments : a.visit = v
                    /\ \A c \in CriteriaOf(1) :
                        post[c] # "" =>
                            Cardinality({a \in assessments' :
                                            a.visit = v /\ a.criteria = c}) = 1]_vars

\* a step-2 submission failed on the visit data of a step 1 that chose no
\* realtor, with a criterion to assess and no visit in the table
StepTwoAllOrNothingWitness ==
    /\ session["bob"].visit_data = SessionVisitData(NoRealtorVisit)
    /\ CriteriaOf(1) # {}
    /\ visits = <<>>
    /\ assessments = {}
    /\ response = Redirect("projects:visit_create", "error", "Error creating visit")

\* the assessment rows of a visit for a criterion
RowsFor(rows, visit_id, c) == {a \in rows : a.visit = visit_id /\ a.criteria = c}

\* C30: a visit_edit submission with an empty value for a numeric, rating or
\* text criterion leaves the visit's assessment for that criterion as it was,
\* present and unchanged or absent, and every assessment row the submission
\* writes or adds belongs to the edited visit and to a criterion that is
\* boolean or was posted with a non-empty value.  (A step that leaves the
\* assessments alone satisfies all of this, so only the others are examined.)
EditSkipsEmptyValues ==
    [][assessments' # assessments =>
       \A visit_id \in VisitsOf(1), post \in AssessmentPosts(1) :
        visit_edit("bob", 1, visit_id, "POST", AnyRawVisit, post) =>
            /\ \A c \in CriteriaOf(1) :
                (criteria[c].type # "boolean" /\ post[c] = "") =>
                    RowsFor(assessments', visit_id, c) = RowsFor(assessments, visit_id, c)
            /\ \A a \in assessments' \ assessments :
                /\ a.visit = visit_id
                /\ criteria[a.criteria].type = "boolean" \/ post[a.criteria] # ""
            /\ \A a \in assessments \ assessments' :
                /\ a.visit = visit_id
                /\ criteria[a.criteria].type = "boolean" \/ post[a.criteria] # ""]_vars

\* a visit was updated while a numeric criterion, which was a text criterion
\* when the visit was assessed, still has its row with the text: the
\* submission left the field empty, as any value would have rewritten the row
EditSkipsEmptyValuesWitness ==
    /\ response = Redirect("projects:visit_detail", "success", "Visit updated successfully!")
    /\ \E a \in assessments :
        /\ criteria[a.criteria].type = "numeric"
        /\ a.value_text = PyStr("abc")

====
